---------------------------- MODULE Spec2Model ----------------------------
(***************************************************************************)
(* The WhatsApp command session engine of the JOTHI school bell system     *)
(* (src/whatsapp_integration.py): the webhook spawns one thread per        *)
(* inbound message; each thread resolves the sender, looks up the pending  *)
(* session, and either continues the session or dispatches a slash         *)
(* command.  Replies, background actions and store mutations are the       *)
(* effects of a thread, executed one at a time so that threads interleave. *)
(*                                                                         *)
(* Text is a sequence of one-character strings, so that strip, split and   *)
(* startswith are computed as Python computes them.                        *)
(***************************************************************************)
EXTENDS Integers, Sequences, FiniteSets, TLC

VARIABLES
    AUTH_USERS,       \* dict identity -> role
    SESSIONS,         \* dict sender -> [expect, data, ts]
    BELL_SCHEDULES,   \* insertion-ordered dict name -> times, as a sequence of pairs
    ACCESS_TOKEN,     \* transport credentials (the empty text is "not set")
    PHONE_NUMBER_ID,
    openai_client,    \* the online TTS client: None, or the client made from a key
    now,              \* time.time(), in seconds
    threads,          \* the message threads started by webhook, by message number
    workers,          \* the background threads started by the handlers
    nmsgs,            \* messages received so far
    nsess,            \* set_session calls so far (names the sessions)
    VERIFY_TOKEN,     \* the configured verification secret
    handshake,        \* the last GET /webhook request and its response, or None
    served            \* the last message the standalone server processed, or None

\* the state of the verification endpoint and of the standalone server
web == <<VERIFY_TOKEN, handshake, served>>

vars == <<AUTH_USERS, SESSIONS, BELL_SCHEDULES, ACCESS_TOKEN, PHONE_NUMBER_ID, openai_client,
          now, threads, workers, nmsgs, nsess, VERIFY_TOKEN, handshake, served>>

---------------------------------------------------------------------------
(* Bounds of the model *)

MaxMsgs == 2     \* messages received in a run
MaxRace == 3     \* the same, in the runs that race two continuations of one session
MaxTime == 301   \* the clock stops here

(* The session time-to-live in seconds *)
TTL == 300

---------------------------------------------------------------------------
(* Python's str operations on texts *)

IsSpace(c) == c = " "

RECURSIVE lstrip(_)
lstrip(s) ==
    IF s # <<>> /\ IsSpace(Head(s)) THEN lstrip(Tail(s)) ELSE s

RECURSIVE rstrip(_)
rstrip(s) ==
    IF s # <<>> /\ IsSpace(s[Len(s)]) THEN rstrip(SubSeq(s, 1, Len(s) - 1)) ELSE s

strip(s) == rstrip(lstrip(s))

startswith(s, p) == Len(s) >= Len(p) /\ SubSeq(s, 1, Len(p)) = p

\* s.find(c) + 1: the position of the first c in s, 0 when there is none
find(s, c) ==
    IF \E i \in 1..Len(s) : s[i] = c
    THEN CHOOSE i \in 1..Len(s) : s[i] = c /\ \A j \in 1..(i - 1) : s[j] # c
    ELSE 0

contains(s, c) == find(s, c) # 0

\* the length of the leading run of non-space characters
TokenLen(s) ==
    IF \E i \in 1..Len(s) : IsSpace(s[i])
    THEN (CHOOSE i \in 1..Len(s) : IsSpace(s[i]) /\ \A j \in 1..(i - 1) : ~IsSpace(s[j])) - 1
    ELSE Len(s)

\* s.split(maxsplit=m): split on runs of whitespace, at most m times; the
\* remainder keeps its inner and trailing whitespace
RECURSIVE split(_, _)
split(s, m) ==
    LET t == lstrip(s) IN
    IF t = <<>> THEN <<>>
    ELSE IF m = 0 THEN <<t>>
    ELSE LET k == TokenLen(t) IN
         <<SubSeq(t, 1, k)>> \o split(SubSeq(t, k + 1, Len(t)), m - 1)

\* s.split() with no limit
split_all(s) == split(s, Len(s))

\* s.split(c, 1) for a text that contains c
split1(s, c) ==
    LET k == find(s, c) IN <<SubSeq(s, 1, k - 1), SubSeq(s, k + 1, Len(s))>>

\* s.split(c): every piece, the empty ones included
RECURSIVE split_on(_, _)
split_on(s, c) ==
    IF ~contains(s, c) THEN <<s>>
    ELSE LET p == split1(s, c) IN <<p[1]>> \o split_on(p[2], c)

\* [t.strip() for t in times.split(",") if t.strip()]
RECURSIVE strip_nonempty(_)
strip_nonempty(ps) ==
    IF ps = <<>> THEN <<>>
    ELSE IF strip(Head(ps)) = <<>> THEN strip_nonempty(Tail(ps))
    ELSE <<strip(Head(ps))>> \o strip_nonempty(Tail(ps))


---------------------------------------------------------------------------
(* The texts the model uses, spelled out character by character *)

T_help == <<"/","h","e","l","p">>
T_about == <<"/","a","b","o","u","t">>
T_bellmode == <<"/","b","e","l","l","m","o","d","e">>
T_assembly == <<"/","a","s","s","e","m","b","l","y">>
T_announcement == <<"/","a","n","n","o","u","n","c","e","m","e","n","t">>
T_announce == <<"/","a","n","n","o","u","n","c","e">>
T_settings == <<"/","s","e","t","t","i","n","g","s">>
T_schedule == <<"/","s","c","h","e","d","u","l","e">>
T_today == <<"t","o","d","a","y">>
T_use == <<"u","s","e">>
T_text == <<"t","e","x","t">>
T_voice == <<"v","o","i","c","e">>
T_setwa == <<"s","e","t","w","a">>
T_setopenai == <<"s","e","t","o","p","e","n","a","i">>
T_list == <<"l","i","s","t">>
T_create == <<"c","r","e","a","t","e">>
T_delete == <<"d","e","l","e","t","e">>
T_rename == <<"r","e","n","a","m","e">>
T_wa_media == <<"w","a","_","m","e","d","i","a","_">>
T_ogg == <<".","o","g","g">>
T_mp3 == <<".","m","p","3">>
T_bin == <<".","b","i","n">>
T_Regular_Day == <<"R","e","g","u","l","a","r"," ","D","a","y">>
T_0830 == <<"0","8",":","3","0">>
T_0930 == <<"0","9",":","3","0">>
T_mime_ogg == <<"a","u","d","i","o","/","o","g","g">>
T_mime_mpeg == <<"a","u","d","i","o","/","m","p","e","g">>
T_mime_mp4 == <<"a","u","d","i","o","/","m","p","4">>
T_plus == <<"+">>
T_slash == <<"/">>

\* "p in s" for texts
has_sub(s, p) == \E i \in 1..(Len(s) - Len(p) + 1) : SubSeq(s, i, i + Len(p) - 1) = p

---------------------------------------------------------------------------
(* Python dicts and None *)

dict_set(d, k, v) == [x \in (DOMAIN d) \cup {k} |-> IF x = k THEN v ELSE d[x]]
dict_del(d, k) == [x \in (DOMAIN d) \ {k} |-> d[x]]
EmptyDict == [x \in {} |-> x]

\* an optional value: <<>> is None, <<v>> is the value v
None == <<>>
Some(v) == <<v>>

\* a session's data dict, as a sequence of <<key, value>> pairs
data_get(data, key, default) ==
    IF \E i \in 1..Len(data) : data[i][1] = key
    THEN data[CHOOSE i \in 1..Len(data) : data[i][1] = key][2]
    ELSE default

---------------------------------------------------------------------------
(* The schedule store of the local stubs: an insertion-ordered dict *)

StubSchedules == << <<T_Regular_Day, <<T_0830, T_0930>> >> >>

sched_index(S, name) ==
    IF \E i \in 1..Len(S) : S[i][1] = name
    THEN CHOOSE i \in 1..Len(S) : S[i][1] = name
    ELSE 0

list_schedule_names(S) == [i \in 1..Len(S) |-> S[i][1]]

get_schedule(S, name) ==
    IF sched_index(S, name) = 0 THEN <<>> ELSE S[sched_index(S, name)][2]

\* a store that keeps the times of a name it already holds
update_schedule_keep(S, name, times) ==
    IF sched_index(S, name) = 0 THEN Append(S, <<name, times>>) ELSE S

\* BELL_SCHEDULES[name] = times
update_schedule(S, name, times) ==
    IF sched_index(S, name) = 0 THEN Append(S, <<name, times>>)
    ELSE [S EXCEPT ![sched_index(S, name)] = <<name, times>>]

delete_schedule(S, n) ==
    LET k == sched_index(S, n) IN
    IF k = 0 THEN S ELSE SubSeq(S, 1, k - 1) \o SubSeq(S, k + 1, Len(S))

\* BELL_SCHEDULES[n] = BELL_SCHEDULES.pop(o), for o in the store (pop raises
\* KeyError otherwise)
rename_schedule(S, o, n) ==
    update_schedule(delete_schedule(S, o), n, get_schedule(S, o))

\* The stub's assembly files
PrayerFile == "english_prayer.mp3"
BirthdayFile == "english_birthday.mp3"
NATIONAL_ANTHEM_FILE == "national_anthem.mp3"
EXTRA1_FILE == ""
EXTRA2_FILE == ""

---------------------------------------------------------------------------
(* Identity directory and session store *)

Roles == {"teacher", "admin", "developer", "staff"}

\* a lookup whose default is the highest role
get_role_default_developer(A, number) ==
    IF number \in DOMAIN A THEN A[number] ELSE "developer"

\* AUTH_USERS.get(number, "teacher")
get_role(A, number) == IF number \in DOMAIN A THEN A[number] ELSE "teacher"

normalize_number(n) ==
    IF n = <<>> THEN n
    ELSE IF startswith(n, T_plus) THEN n
    ELSE T_plus \o n

\* set_session; sid numbers the sessions and role is the creator's role, both
\* kept for the statements about sessions and not read by the handlers
set_session(S, sender, state, data, t, sid, role) ==
    dict_set(S, sender,
             [expect |-> state, data |-> data, ts |-> t, sid |-> sid, role |-> role])

\* a clear that empties the store
clear_session_everyone(S, sender) == IF sender \in DOMAIN S THEN EmptyDict ELSE S

clear_session(S, sender) == IF sender \in DOMAIN S THEN dict_del(S, sender) ELSE S

\* an expiry test that also drops a session aged exactly TTL
Expired_at_ttl(s, t) == t - s.ts >= TTL

Expired(s, t) == t - s.ts > TTL

\* a read that restarts the clock of the session it returns
get_session_touch(S, sender, t) ==
    IF sender \notin DOMAIN S THEN [session |-> None, store |-> S]
    ELSE IF Expired(S[sender], t)
         THEN [session |-> None, store |-> clear_session(S, sender)]
         ELSE [session |-> Some(S[sender]), store |-> [S EXCEPT ![sender].ts = t]]

\* get_session: the session returned, and the store after the read
get_session(S, sender, t) ==
    IF sender \notin DOMAIN S THEN [session |-> None, store |-> S]
    ELSE IF Expired(S[sender], t)
         THEN [session |-> None, store |-> clear_session(S, sender)]
         ELSE [session |-> Some(S[sender]), store |-> S]

---------------------------------------------------------------------------
(* The effects of a handler, in the order the code performs them.  Every   *)
(* effect is [op, text, arg]: a reply is the call send_whatsapp_text(sender,*)
(* text) with the values formatted into it in arg.                         *)

Effect(op, text, arg) == [op |-> op, text |-> text, arg |-> arg]

send_whatsapp_text(text, arg) == Effect("send_whatsapp_text", text, arg)
StartThread(target, args) == Effect("Thread.start", target, args)
SetSession(state, data) == Effect("set_session", state, data)
ClearSession == Effect("clear_session", "", <<>>)
UpdateSchedule(name, times) == Effect("update_schedule", "", <<name, times>>)
DeleteSchedule(name) == Effect("delete_schedule", "", <<name>>)
RenameSchedule(old, new) == Effect("rename_schedule", "", <<old, new>>)
SetWa(phone_id, token) == Effect("save_wa_config", "", <<phone_id, token>>)
SetOpenAI(key) == Effect("init_openai_client", "", <<key>>)

NotAllowed == send_whatsapp_text("Not allowed.", <<>>)
UnknownCommand == send_whatsapp_text("Unknown command. Type /help", <<>>)
VoiceChoices ==
    send_whatsapp_text("Choose voice model for announcement:\n1. Alloy (online)\n2. Nova (online)\n3. Onyx (online)\n4. Offline local\nSend 1/2/3/4 now.", <<>>)
InvalidChoice == send_whatsapp_text("Invalid choice. Send 1,2,3 or 4.", <<>>)
ModelAsText == send_whatsapp_text("Please send model number 1/2/3/4 as text.", <<>>)
SendVoiceNote == send_whatsapp_text("Please send a voice note (audio message).", <<>>)
SessionUnknown == send_whatsapp_text("Session expired or unknown.", <<>>)

ABOUT_US_TEXT ==
    "JOTHI - School Bell System\n\nThis project is built as a tribute and a practical school bell/announcement system."

\* /help, for the three roles that have a help text
cmd_help(role) ==
    IF role = "teacher"
    THEN <<send_whatsapp_text("JOTHI Commands (Teacher):\n/bellmode - Bell options\n/assembly - Assembly playback\n/about - About us", <<>>)>>
    ELSE IF role = "admin"
    THEN <<send_whatsapp_text("JOTHI Commands (Admin):\n/announcement - Make announcement\n/about - About us", <<>>)>>
    ELSE <<send_whatsapp_text("JOTHI Commands (Developer):\n/bellmode\n/assembly\n/announcement\n/settings\n/about", <<>>)>>

\* the /bellmode branch
cmd_bellmode(lower, role, S) ==
    LET parts == split(lower, 2) IN
    IF role \notin {"teacher", "developer"} THEN <<NotAllowed>>
    ELSE IF Len(parts) = 1
    THEN <<send_whatsapp_text("Bell commands:\n/bellmode today - set today's times\n/bellmode use <name> - use saved schedule", <<>>)>>
    ELSE IF parts[2] = T_today
    THEN <<send_whatsapp_text("Send times for TODAY as comma separated HH:MM values. Example: 09:00,10:30,12:00", <<>>),
           SetSession("bell_today_input", <<>>)>>
    ELSE IF parts[2] = T_use /\ Len(parts) >= 3
    THEN LET name == strip(parts[3])
             sched == get_schedule(S, name)
         IN  IF sched = <<>>
             THEN <<send_whatsapp_text("Schedule '{name}' not found.", <<name>>)>>
             ELSE <<StartThread("ringBell", <<sched>>),
                    send_whatsapp_text("Started schedule '{name}'", <<name>>)>>
    ELSE <<send_whatsapp_text("Unknown bellmode command.", <<>>)>>

\* the /assembly branch
cmd_assembly(lower, role) ==
    LET parts == split_all(lower)
        cmd == parts[2]
    IN
    IF role \notin {"teacher", "developer"} THEN <<NotAllowed>>
    ELSE IF Len(parts) = 1
    THEN <<send_whatsapp_text("Assembly commands: /assembly <n>\n1=Prayer,2=Birthday,3=Anthem,4=Extra1,5=Extra2,6=Bell(5s),11=Prayer+Birthday", <<>>)>>
    ELSE IF cmd = <<"1">>
    THEN <<StartThread("play_audio_blocking", <<PrayerFile>>),
           send_whatsapp_text("Playing prayer.", <<>>)>>
    ELSE IF cmd = <<"2">>
    THEN <<StartThread("play_audio_blocking", <<BirthdayFile>>),
           send_whatsapp_text("Playing birthday song.", <<>>)>>
    ELSE IF cmd = <<"3">>
    THEN <<StartThread("play_audio_blocking", <<NATIONAL_ANTHEM_FILE>>),
           send_whatsapp_text("Playing national anthem.", <<>>)>>
    ELSE IF cmd = <<"4">>
    THEN IF EXTRA1_FILE # ""
         THEN <<StartThread("play_audio_blocking", <<EXTRA1_FILE>>),
                send_whatsapp_text("Playing Extra 1.", <<>>)>>
         ELSE <<send_whatsapp_text("Extra 1 not set.", <<>>)>>
    ELSE IF cmd = <<"5">>
    THEN IF EXTRA2_FILE # ""
         THEN <<StartThread("play_audio_blocking", <<EXTRA2_FILE>>),
                send_whatsapp_text("Playing Extra 2.", <<>>)>>
         ELSE <<send_whatsapp_text("Extra 2 not set.", <<>>)>>
    ELSE IF cmd = <<"6">>
    THEN <<StartThread("ring_assembly_bell", <<5>>),
           send_whatsapp_text("Rung assembly bell for 5 seconds.", <<>>)>>
    ELSE IF cmd = <<"1", "1">>
    THEN <<StartThread("both", <<PrayerFile, BirthdayFile>>),
           send_whatsapp_text("Played prayer + birthday.", <<>>)>>
    ELSE <<send_whatsapp_text("Unknown assembly option.", <<>>)>>

\* the roles that may announce
AnnounceRoles_as_bell == {"teacher", "developer"}

AnnounceRoles == {"admin", "developer"}

\* a split of the announce command at every space, which cuts the body at
\* its first word
announce_parts_all(lower) == split_all(lower)

\* lower.split(maxsplit=2)
announce_parts(lower) == split(lower, 2)

\* the /announcement and /announce branch
cmd_announce(lower, role) ==
    LET parts == announce_parts(lower) IN
    IF role \notin AnnounceRoles THEN <<NotAllowed>>
    ELSE IF Len(parts) >= 2 /\ parts[2] = T_text
    THEN LET msg == IF Len(parts) >= 3 THEN parts[3] ELSE <<>> IN
         IF msg = <<>>
         THEN <<send_whatsapp_text("Usage: /announce text <your message>", <<>>)>>
         ELSE <<SetSession("announce_model", << <<"announce_text", msg>> >>), VoiceChoices>>
    ELSE IF Len(parts) >= 2 /\ parts[2] = T_voice
    THEN <<SetSession("announce_wait_voice", <<>>),
           send_whatsapp_text("Please send the voice note now (record & send voice message in WhatsApp).", <<>>)>>
    ELSE <<send_whatsapp_text("Announcement usage:\n/announce text <message>\n/announce voice", <<>>)>>

\* the /settings branch
cmd_settings(lower, role) ==
    LET parts == split(lower, 2) IN
    IF role # "developer" THEN <<NotAllowed>>
    ELSE IF Len(parts) = 1
    THEN <<send_whatsapp_text("Settings:\n/settings setwa <PHONE_ID>|<ACCESS_TOKEN>\n/settings setopenai <OPENAI_KEY>", <<>>)>>
    ELSE IF parts[2] = T_setwa /\ Len(parts) >= 3
    THEN IF ~contains(parts[3], "|")
         THEN <<send_whatsapp_text("Use: /settings setwa PHONE_ID|ACCESS_TOKEN", <<>>)>>
         ELSE LET p == split1(parts[3], "|") IN
              <<SetWa(strip(p[1]), strip(p[2])),
                send_whatsapp_text("WhatsApp config saved.", <<>>)>>
    ELSE IF parts[2] = T_setopenai /\ Len(parts) >= 3
    THEN <<SetOpenAI(strip(parts[3])),
           send_whatsapp_text("OpenAI key saved & loaded.", <<>>)>>
    ELSE <<send_whatsapp_text("Unknown settings command.", <<>>)>>

\* the /schedule branch, entered by a developer only
cmd_schedule(lower, S) ==
    LET parts == split(lower, 2)
        cmd == IF Len(parts) >= 2 THEN parts[2] ELSE <<>>
    IN
    IF cmd = T_list
    THEN IF list_schedule_names(S) # <<>>
         THEN <<send_whatsapp_text("Saved schedules: {names}", list_schedule_names(S))>>
         ELSE <<send_whatsapp_text("Saved schedules: (none)", <<>>)>>
    ELSE IF cmd = T_create /\ Len(parts) >= 3
    THEN IF ~contains(parts[3], "|")
         THEN <<send_whatsapp_text("Use: /schedule create NAME|HH:MM,HH:MM", <<>>)>>
         ELSE LET p == split1(parts[3], "|")
                  times == strip_nonempty(split_on(p[2], ","))
              IN  <<UpdateSchedule(strip(p[1]), times),
                    send_whatsapp_text("Schedule '{name}' created.", <<strip(p[1])>>)>>
    ELSE IF cmd = T_delete /\ Len(parts) >= 3
    THEN <<DeleteSchedule(strip(parts[3])),
           send_whatsapp_text("Deleted schedule '{name}'.", <<strip(parts[3])>>)>>
    ELSE IF cmd = T_rename /\ Len(parts) >= 3
    THEN IF ~contains(parts[3], "|")
         THEN <<send_whatsapp_text("Use: /schedule rename OLD|NEW", <<>>)>>
         ELSE LET p == split1(parts[3], "|") IN
              <<RenameSchedule(strip(p[1]), strip(p[2])),
                send_whatsapp_text("Renamed '{old}' -> '{new}'", <<strip(p[1]), strip(p[2])>>)>>
    ELSE <<send_whatsapp_text("Schedule commands for developer: list/create/rename/delete", <<>>)>>

\* handle_slash_command: the effects of a command text for a sender whose
\* role is role, with the schedule store S
handle_slash_command(body, role, S) ==
    LET lower == strip(body) IN
    IF lower = T_help /\ role \in {"teacher", "admin", "developer"} THEN cmd_help(role)
    ELSE IF startswith(lower, T_about) THEN <<send_whatsapp_text(ABOUT_US_TEXT, <<>>)>>
    ELSE IF startswith(lower, T_bellmode) THEN cmd_bellmode(lower, role, S)
    ELSE IF startswith(lower, T_assembly) THEN cmd_assembly(lower, role)
    ELSE IF startswith(lower, T_announcement) \/ startswith(lower, T_announce)
    THEN cmd_announce(lower, role)
    ELSE IF startswith(lower, T_settings) THEN cmd_settings(lower, role)
    ELSE IF startswith(lower, T_schedule) /\ role = "developer" THEN cmd_schedule(lower, S)
    ELSE <<UnknownCommand>>

---------------------------------------------------------------------------
(* Media retrieval: the platform's answers are inputs of the handler *)

\* requests.get got no response (connection refused, timeout) and raises
NoResponse == 0

\* the outcomes of the media metadata request: a JSON body with the url and
\* the mime_type, one that lacks the mime_type, an error status, no response
MetaResponses ==
    {[status |-> 200, url |-> <<"u">>, mime |-> m] :
         m \in {T_mime_ogg, T_mime_mpeg, T_mime_mp4, None}}
    \cup {[status |-> 404, url |-> <<>>, mime |-> <<>>],
          [status |-> NoResponse, url |-> <<>>, mime |-> <<>>]}

\* the outcomes of the download request
DownloadStatuses == {200, 404, NoResponse}

\* whether the media retrieval raises instead of returning: a request without
\* a response, or the test '"ogg" in mime_type' with mime_type None
media_raises(token, resp, status) ==
    /\ token # <<>>
    /\ \/ resp.status = NoResponse
       \/ /\ resp.status = 200
          /\ resp.url # <<>>
          /\ \/ status = NoResponse
             \/ status = 200 /\ resp.mime = None

\* get_media_url: (url, mime_type), or (None, None)
get_media_url(token, resp) ==
    IF token = <<>> THEN [url |-> <<>>, mime |-> <<>>]
    ELSE IF resp.status = 200 THEN [url |-> resp.url, mime |-> resp.mime]
    ELSE [url |-> <<>>, mime |-> <<>>]

\* download_media_file: the path of the saved file, or None (the empty text)
download_media_file(status, media_id, mime_type) ==
    IF status = 200
    THEN LET ext == IF has_sub(mime_type, <<"o","g","g">>) THEN T_ogg
                    ELSE IF has_sub(mime_type, <<"m","p","e","g">>) THEN T_mp3
                    ELSE T_bin
         IN  T_wa_media \o media_id \o ext
    ELSE <<>>

---------------------------------------------------------------------------
(* Session continuation *)

\* a voice table with two entries exchanged
model_map_swapped(choice) ==
    CASE choice = <<"1">> -> "alloy"
      [] choice = <<"2">> -> "onyx"
      [] choice = <<"3">> -> "nova"
      [] choice = <<"4">> -> "offline"

model_map(choice) ==
    CASE choice = <<"1">> -> "alloy"
      [] choice = <<"2">> -> "nova"
      [] choice = <<"3">> -> "onyx"
      [] choice = <<"4">> -> "offline"

\* the announce_model branch with the reply placed ahead of the thread start
announce_model_input_reply_first(session, msg) ==
    IF msg.type # "text" THEN <<ModelAsText>>
    ELSE LET choice == strip(msg.body) IN
         IF choice \notin {<<"1">>, <<"2">>, <<"3">>, <<"4">>} THEN <<InvalidChoice>>
         ELSE <<send_whatsapp_text("Announcement played using model {choice}", <<choice>>),
                StartThread("run_announce",
                            <<model_map(choice), data_get(session.data, "announce_text", <<>>)>>),
                ClearSession>>

\* the announce_model branch of handle_session_message
announce_model_input(session, msg) ==
    IF msg.type # "text" THEN <<ModelAsText>>
    ELSE LET choice == strip(msg.body) IN
         IF choice \notin {<<"1">>, <<"2">>, <<"3">>, <<"4">>} THEN <<InvalidChoice>>
         ELSE <<StartThread("run_announce",
                            <<model_map(choice), data_get(session.data, "announce_text", <<>>)>>),
                send_whatsapp_text("Announcement played using model {choice}", <<choice>>),
                ClearSession>>

\* the announce_wait_voice branch of handle_session_message; no effect when
\* the media retrieval raises
wait_voice_input(msg, token, resp, status) ==
    IF msg.type # "audio" THEN <<SendVoiceNote>>
    ELSE IF media_raises(token, resp, status) THEN <<>>
    ELSE LET media_id == msg.media
             m == get_media_url(token, resp)
             path == download_media_file(status, media_id, m.mime)
         IN  IF m.url = <<>>
             THEN <<send_whatsapp_text("Failed to get media URL.", <<>>), ClearSession>>
             ELSE IF path = <<>>
             THEN <<send_whatsapp_text("Failed to download voice.", <<>>), ClearSession>>
             ELSE <<StartThread("play_audio_blocking", <<path>>),
                    send_whatsapp_text("Voice announcement received and played.", <<>>),
                    ClearSession>>

\* handle_session_message: the effects of a message for a sender whose
\* session is session; resp and status are the platform's answers to the
\* media requests, token is ACCESS_TOKEN
handle_session_message(session, msg, token, resp, status) ==
    IF session.expect = "announce_model" THEN announce_model_input(session, msg)
    ELSE IF session.expect = "announce_wait_voice"
    THEN wait_voice_input(msg, token, resp, status)
    ELSE <<SessionUnknown, ClearSession>>

\* process_incoming_message after the session lookup found none
fresh_message(msg, role, S) ==
    IF msg.type = "text"
    THEN LET body == strip(msg.body) IN
         IF ~startswith(body, T_slash)
         THEN <<send_whatsapp_text("Welcome to JOTHI WhatsApp bot. Type /help to see commands.", <<>>)>>
         ELSE handle_slash_command(body, role, S)
    ELSE IF msg.type = "audio"
    THEN <<send_whatsapp_text("To use a voice note for announcement, please send /announce voice first.", <<>>)>>
    ELSE <<send_whatsapp_text("Message type not supported. Use /help", <<>>)>>

\* whether the message reaches handle_slash_command, where the role is read
IsSlashCommand(msg) == msg.type = "text" /\ startswith(strip(msg.body), T_slash)

---------------------------------------------------------------------------
(* Background threads *)

\* the calls of both() in the other order
worker_calls_birthday_first(target, args) ==
    IF target = "both"
    THEN <<[call |-> "play_audio_blocking", arg |-> args[2]],
           [call |-> "play_audio_blocking", arg |-> args[1]]>>
    ELSE <<[call |-> target, arg |-> args[1]]>>

\* the blocking calls a background thread makes, in order
worker_calls(target, args) ==
    IF target = "both"
    THEN <<[call |-> "play_audio_blocking", arg |-> args[1]],
           [call |-> "play_audio_blocking", arg |-> args[2]]>>
    ELSE <<[call |-> target, arg |-> args[1]]>>

\* a thread that is run to its end by the call that creates it
new_worker_joined(t, target, args, session) ==
    [by |-> t, target |-> target, args |-> args, session |-> session,
     done |-> Len(worker_calls(target, args))]

\* threading.Thread(target=..., args=...).start() by message thread t, whose
\* session (None outside a continuation) is kept for the statements
new_worker(t, target, args, session) ==
    [by |-> t, target |-> target, args |-> args, session |-> session, done |-> 0]

---------------------------------------------------------------------------
(* The state machine *)

Identities(Froms) == {normalize_number(f) : f \in Froms \ {<<>>}}

\* the directories authorized_numbers.txt can hold for the identities
Directories(Ids) == UNION {[D -> Roles] : D \in SUBSET Ids}

InitEngine(Ids, Clients) ==
    /\ AUTH_USERS \in Directories(Ids)
    /\ SESSIONS = EmptyDict
    /\ BELL_SCHEDULES = StubSchedules
    /\ ACCESS_TOKEN = <<"k">>
    /\ PHONE_NUMBER_ID = <<"7">>
    /\ openai_client \in Clients
    /\ now = 0
    /\ threads = EmptyDict
    /\ workers = {}
    /\ nmsgs = 0
    /\ nsess = 0

\* os.getenv("JOTHI_VERIFY_TOKEN", "JOTHI_VERIFY") with the variable unset
InitWith(Ids, Clients) ==
    /\ InitEngine(Ids, Clients)
    /\ VERIFY_TOKEN = "JOTHI_VERIFY"
    /\ handshake = None
    /\ served = None

\* a dispatcher that lets a command text pre-empt the pending session
route_commands_first(msg, session, role, S, token, resp, status) ==
    IF session # None /\ ~IsSlashCommand(msg)
    THEN handle_session_message(session[1], msg, token, resp, status)
    ELSE fresh_message(msg, role, S)

\* the effects process_incoming_message will perform, given what it read
route(msg, session, role, S, token, resp, status) ==
    IF session # None
    THEN handle_session_message(session[1], msg, token, resp, status)
    ELSE fresh_message(msg, role, S)

\* a handler that asks for the media of every audio message
FetchesMedia_any(msg, session) == msg.type = "audio"

\* whether the continuation asks the platform for the media
FetchesMedia(msg, session) ==
    /\ session # None
    /\ session[1].expect = "announce_wait_voice"
    /\ msg.type = "audio"

\* the locals url, mime and path of a continuation that fetched the media
fetch(msg, session, token, resp, status) ==
    IF FetchesMedia(msg, session)
    THEN IF media_raises(token, resp, status)
         THEN Some([raised |-> TRUE, url |-> <<>>, mime |-> <<>>, path |-> <<>>])
         ELSE LET m == get_media_url(token, resp) IN
              Some([raised |-> FALSE, url |-> m.url, mime |-> m.mime,
                    path |-> IF m.url = <<>> THEN <<>>
                             ELSE download_media_file(status, msg.media, m.mime)])
    ELSE None

\* webhook starts a thread for the message, and the thread runs
\* process_incoming_message up to its first effect: normalize the sender,
\* look the session up (evicting an expired one), read the role and the
\* schedule store, and take the branch
process_incoming_message(msg, max) ==
    /\ nmsgs < max
    /\ nmsgs' = nmsgs + 1
    /\ LET t == nmsgs + 1
           sender == normalize_number(msg.from)
           got == get_session(SESSIONS, sender, now)
           role == IF got.session = None /\ IsSlashCommand(msg)
                   THEN get_role(AUTH_USERS, sender) ELSE ""
           th == [msg |-> msg, pc |-> "done", sender |-> sender, at |-> now,
                  session |-> None, role |-> "", fetched |-> None,
                  plan |-> <<>>, log |-> <<>>]
       IN  IF sender = <<>>
           THEN /\ threads' = dict_set(threads, t, th)
                /\ UNCHANGED SESSIONS
           ELSE /\ SESSIONS' = got.store
                /\ \E resp \in (IF FetchesMedia(msg, got.session) THEN MetaResponses
                                ELSE {CHOOSE r \in MetaResponses : r.status = 404}),
                      status \in (IF FetchesMedia(msg, got.session) THEN DownloadStatuses
                                  ELSE {404}) :
                      LET plan == route(msg, got.session, role, BELL_SCHEDULES,
                                        ACCESS_TOKEN, resp, status)
                      IN  threads' = dict_set(threads, t,
                                         [th EXCEPT !.pc = IF plan = <<>> THEN "raised" ELSE "run",
                                                    !.session = got.session,
                                                    !.role = role, !.plan = plan,
                                                    !.fetched = fetch(msg, got.session,
                                                                      ACCESS_TOKEN, resp, status)])
    /\ UNCHANGED <<web, AUTH_USERS, BELL_SCHEDULES, ACCESS_TOKEN, PHONE_NUMBER_ID, openai_client,
                   now, workers, nsess>>

\* _init_openai_client_from_file with the key just written (OPENAI_API_KEY
\* unset): the clients it can leave, None when the key is empty, the SDK is
\* missing or the constructor raises
init_openai_client(key) == {None} \cup (IF key # <<>> THEN {Some(key)} ELSE {})

\* whether the effect raises: rename_schedule pops a missing key
Raises(e, S) == e.op = "rename_schedule" /\ sched_index(S, e.arg[1]) = 0

\* the next effect of thread t: a reply, a background thread, a session or
\* store mutation; after the last one the handler returns
perform(t) ==
    /\ t \in DOMAIN threads
    /\ threads[t].pc = "run"
    /\ LET th == threads[t]
           e == Head(th.plan)
           raised == Raises(e, BELL_SCHEDULES)
       IN  /\ threads' = [threads EXCEPT ![t] =
                   IF raised THEN [@ EXCEPT !.pc = "raised"]
                   ELSE [@ EXCEPT !.plan = Tail(th.plan), !.log = Append(th.log, e),
                                  !.pc = IF Tail(th.plan) = <<>> THEN "done" ELSE "run"]]
           /\ SESSIONS' =
                 IF e.op = "set_session"
                 THEN set_session(SESSIONS, th.sender, e.text, e.arg, now, nsess + 1, th.role)
                 ELSE IF e.op = "clear_session" THEN clear_session(SESSIONS, th.sender)
                 ELSE SESSIONS
           /\ nsess' = IF e.op = "set_session" THEN nsess + 1 ELSE nsess
           /\ workers' =
                 IF e.op = "Thread.start"
                 THEN workers \cup {new_worker(t, e.text, e.arg, th.session)}
                 ELSE workers
           /\ BELL_SCHEDULES' =
                 IF raised THEN BELL_SCHEDULES
                 ELSE IF e.op = "update_schedule"
                 THEN update_schedule(BELL_SCHEDULES, e.arg[1], e.arg[2])
                 ELSE IF e.op = "delete_schedule" THEN delete_schedule(BELL_SCHEDULES, e.arg[1])
                 ELSE IF e.op = "rename_schedule"
                 THEN rename_schedule(BELL_SCHEDULES, e.arg[1], e.arg[2])
                 ELSE BELL_SCHEDULES
           /\ PHONE_NUMBER_ID' = IF e.op = "save_wa_config" THEN e.arg[1] ELSE PHONE_NUMBER_ID
           /\ ACCESS_TOKEN' = IF e.op = "save_wa_config" THEN e.arg[2] ELSE ACCESS_TOKEN
           /\ openai_client' \in
                 IF e.op = "init_openai_client" THEN init_openai_client(e.arg[1])
                 ELSE {openai_client}
    /\ UNCHANGED <<web, AUTH_USERS, now, nmsgs>>

\* a background thread completes its next blocking call; after the last one it
\* has ended
Finished(w) == w.done = Len(worker_calls(w.target, w.args))

worker_step(w) ==
    /\ w \in workers
    /\ ~Finished(w)
    /\ workers' = (workers \ {w}) \cup {[w EXCEPT !.done = w.done + 1]}
    /\ UNCHANGED <<web, AUTH_USERS, SESSIONS, BELL_SCHEDULES, ACCESS_TOKEN, PHONE_NUMBER_ID, openai_client,
                   now, threads, nmsgs, nsess>>

\* time passes
Tick(d) ==
    /\ now + d <= MaxTime
    /\ now' = now + d
    /\ UNCHANGED <<web, AUTH_USERS, SESSIONS, BELL_SCHEDULES, ACCESS_TOKEN, PHONE_NUMBER_ID, openai_client,
                   threads, workers, nmsgs, nsess>>

\* shell_settings_menu, choice 3: the operator sets the role of a number
shell_settings_menu(num, role) ==
    /\ AUTH_USERS' = dict_set(AUTH_USERS, num, role)
    /\ AUTH_USERS' # AUTH_USERS
    /\ UNCHANGED <<web, SESSIONS, BELL_SCHEDULES, ACCESS_TOKEN, PHONE_NUMBER_ID, openai_client,
                   now, threads, workers, nmsgs, nsess>>

\* the messages of Msgs arrive in any order, max of them at most
Receive(Msgs, max) == \E m \in Msgs : process_incoming_message(m, max)

\* the message threads and the background threads run
Run ==
    \/ \E t \in DOMAIN threads : perform(t)
    \/ \E w \in workers : worker_step(w)

Clock(Steps) == \E d \in Steps : Tick(d)

---------------------------------------------------------------------------
(* Inbound messages *)

TextMsg(from, body) == [from |-> from, type |-> "text", body |-> body, media |-> <<>>]
AudioMsg(from, id) == [from |-> from, type |-> "audio", body |-> <<>>, media |-> id]
OtherMsg(from) == [from |-> from, type |-> "image", body |-> <<>>, media |-> <<>>]

Alice == <<"+","1">>
Bob == <<"+","2">>

B_help == <<"/","h","e","l","p">>
B_announce_text == <<"/","a","n","n","o","u","n","c","e"," ","t","e","x","t"," ","G","o","o","d"," ","m","o","r","n","i","n","g">>
B_announcement_text == <<"/","a","n","n","o","u","n","c","e","m","e","n","t"," ","t","e","x","t"," ","X">>
B_announce_voice == <<"/","a","n","n","o","u","n","c","e"," ","v","o","i","c","e">>
B_bellmode_today == <<"/","b","e","l","l","m","o","d","e"," ","t","o","d","a","y">>
B_one == <<"1">>
B_two == <<"2">>
B_three == <<"3">>
B_four == <<"4">>
B_four_spaced == <<" ","4"," ">>
B_five == <<"5">>
B_hello == <<"h","e","l","l","o">>
T_Good_morning == <<"G","o","o","d"," ","m","o","r","n","i","n","g">>

---------------------------------------------------------------------------
(* The announcement conversation of one sender, under every directory *)

AnnounceMsgs ==
    {TextMsg(Alice, b) : b \in {B_help, B_announce_text, B_announce_voice, B_two, B_four_spaced}}
    \cup {AudioMsg(Alice, <<"m">>)}

Init == InitWith({Alice}, {None})
Next == Receive(AnnounceMsgs, MaxMsgs) \/ Run \/ Clock({301})
Spec == Init /\ [][Next]_vars

\* the same conversation with one more message, so that two continuations of
\* one session run together
NextRace == Receive(AnnounceMsgs, MaxRace) \/ Run \/ Clock({301})
SpecRace == Init /\ [][NextRace]_vars

---------------------------------------------------------------------------
(* What the statements read off a message thread *)

Done(t) == threads[t].pc = "done"
Continues(t, expect) ==
    threads[t].session # None /\ threads[t].session[1].expect = expect
Fresh(t) == threads[t].sender # <<>> /\ threads[t].session = None
IsText(t, body) == threads[t].msg.type = "text" /\ threads[t].msg.body = body
Started(t) == {w \in workers : w.by = t}
HasSession(sender, expect) ==
    sender \in DOMAIN SESSIONS /\ SESSIONS[sender].expect = expect

---------------------------------------------------------------------------
(* C1: sessions pre-empt command dispatch.  A thread whose session lookup  *)
(* returned a live session performs only effects of the continuation       *)
(* handler and never reads the role, whatever the message holds; the text  *)
(* /help sent while announce_model is expected gets the invalid-choice     *)
(* re-prompt alone, so no help reply is sent and the session is not        *)
(* cleared or replaced by that thread.                                     *)

ContinuationReplies ==
    {"Please send model number 1/2/3/4 as text.",
     "Invalid choice. Send 1,2,3 or 4.",
     "Announcement played using model {choice}",
     "Please send a voice note (audio message).",
     "Failed to get media URL.",
     "Failed to download voice.",
     "Voice announcement received and played.",
     "Session expired or unknown."}

IsContinuationEffect(e) ==
    \/ e.op = "send_whatsapp_text" /\ e.text \in ContinuationReplies
    \/ e.op = "Thread.start" /\ e.text \in {"run_announce", "play_audio_blocking"}
    \/ e.op = "clear_session"

C1_SessionsPreempt ==
    \A t \in DOMAIN threads :
        threads[t].session # None =>
            /\ threads[t].role = ""
            /\ \A i \in 1..Len(threads[t].log) : IsContinuationEffect(threads[t].log[i])
            /\ \A i \in 1..Len(threads[t].plan) : IsContinuationEffect(threads[t].plan[i])
            /\ (Done(t) /\ Continues(t, "announce_model") /\ IsText(t, B_help))
                   => threads[t].log = <<InvalidChoice>>

C1_Witness ==
    \E t \in DOMAIN threads :
        /\ Done(t) /\ Continues(t, "announce_model") /\ IsText(t, B_help)
        /\ threads[t].log = <<InvalidChoice>>
        /\ HasSession(Alice, "announce_model")
        /\ SESSIONS[Alice].sid = threads[t].session[1].sid

---------------------------------------------------------------------------
(* C2: get + act + clear is atomic per identity.  No session (named by its *)
(* sid) ever has more than one TTS or playback thread started from it: two *)
(* background threads started by continuations of the same session are the *)
(* same thread.                                                            *)

C2_OneActionPerSession ==
    \A w1 \in workers : \A w2 \in workers :
        (/\ w1.session # None
         /\ w2.session # None
         /\ w1.session[1].sid = w2.session[1].sid) => w1 = w2

---------------------------------------------------------------------------
(* The announcement conversation while the clock runs up to and past the   *)
(* time-to-live                                                            *)

TTLMsgs == {TextMsg(Alice, b) : b \in {B_help, B_announce_text, B_two}}

NextTTL == Receive(TTLMsgs, MaxMsgs) \/ Run \/ Clock({299, 300, 301})
SpecTTL == Init /\ [][NextTTL]_vars

\* A session lookup: the step that starts the thread of a message from a
\* sender who has an entry in SESSIONS.  The entry is returned while its age
\* is below the limit (at the limit too, when inclusive) and the store is
\* left alone; otherwise the lookup returns None, the entry is evicted and
\* the message is handled as a fresh one.
TTLRead(inclusive) ==
    \A t \in (DOMAIN threads') \ (DOMAIN threads) :
        LET th == threads'[t]
            s == th.sender
            age == now - SESSIONS[s].ts
        IN  s \in DOMAIN SESSIONS =>
                IF age < TTL \/ (inclusive /\ age = TTL)
                THEN /\ th.session = Some(SESSIONS[s])
                     /\ SESSIONS' = SESSIONS
                ELSE /\ th.session = None
                     /\ s \notin DOMAIN SESSIONS'
                     /\ th.plan = fresh_message(th.msg, th.role, BELL_SCHEDULES)

(* C3 as stated: a session is visible to every read at an age below 300    *)
(* seconds and absent, evicted and the event handled as a fresh command,   *)
(* for every read at an age of 300 seconds or more, exactly 300 included.  *)
C3_AbsentFrom300 == [][TTLRead(FALSE)]_vars

(* C3, amended: a session is visible to every read at an age of at most    *)
(* 300 seconds, exactly 300 included, and absent, evicted and the event    *)
(* handled as a fresh command, for every read at an age above 300 seconds. *)
C3_VisibleThrough300 == [][TTLRead(TRUE)]_vars

\* a read at the age of exactly 300 seconds returned the session
C3_Witness ==
    \E t \in DOMAIN threads :
        /\ threads[t].session # None
        /\ threads[t].at - threads[t].session[1].ts = TTL

---------------------------------------------------------------------------
(* C4: for an admin or developer with no live session, the command         *)
(* "/announce text Good morning" has exactly two effects, in this order:   *)
(* set_session to announce_model with the payload "Good morning", and the  *)
(* reply listing the four voice models; it starts no background thread,    *)
(* and the step that performs the set_session leaves the sender's entry in *)
(* SESSIONS with that state, that payload and the current time.            *)

AnnounceTextEffects ==
    <<SetSession("announce_model", << <<"announce_text", T_Good_morning>> >>), VoiceChoices>>

IsAnnounceText(t) ==
    /\ Fresh(t)
    /\ threads[t].role \in {"admin", "developer"}
    /\ IsText(t, B_announce_text)

C4_Effects ==
    \A t \in DOMAIN threads :
        IsAnnounceText(t) =>
            /\ threads[t].log \o threads[t].plan = AnnounceTextEffects
            /\ Started(t) = {}

C4_SessionStored ==
    \A t \in DOMAIN threads :
        (/\ IsAnnounceText(t)
         /\ Len(threads[t].log) = 0
         /\ Len(threads'[t].log) = 1) =>
            /\ HasSession(threads[t].sender, "announce_model")'
            /\ SESSIONS'[threads[t].sender].data = << <<"announce_text", T_Good_morning>> >>
            /\ SESSIONS'[threads[t].sender].ts = now

C4_AnnounceText == [](C4_Effects) /\ [][C4_SessionStored]_vars

C4_Witness ==
    \E t \in DOMAIN threads :
        /\ Done(t) /\ IsAnnounceText(t)
        /\ threads[t].role = "developer"
        /\ threads[t].log = AnnounceTextEffects
        /\ HasSession(Alice, "announce_model")
        /\ SESSIONS[Alice].data = << <<"announce_text", T_Good_morning>> >>
        /\ workers = {}

---------------------------------------------------------------------------
(* The voice-model choice: an announcement text, then each of the choices *)

ChoiceMsgs ==
    {TextMsg(Alice, b) : b \in {B_announce_text, B_one, B_two, B_three, B_four, B_five}}

NextChoice == Receive(ChoiceMsgs, MaxMsgs) \/ Run \/ Clock({301})
SpecChoice == Init /\ [][NextChoice]_vars

(* C5: in state announce_model a text that is "1", "2", "3" or "4" has     *)
(* exactly three effects: one background thread run_announce with the      *)
(* chosen model (1 alloy, 2 nova, 3 onyx, 4 offline) and the body stored   *)
(* in the session, the confirmation reply naming the choice, and           *)
(* clear_session; once the handler is done it has started exactly that one *)
(* thread, and the step that performs the clear_session leaves the sender  *)
(* without a session.                                                      *)

ChosenModel(body) ==
    CASE body = B_one -> "alloy"
      [] body = B_two -> "nova"
      [] body = B_three -> "onyx"
      [] body = B_four -> "offline"

IsValidChoice(t) ==
    /\ Continues(t, "announce_model")
    /\ threads[t].msg.type = "text"
    /\ threads[t].msg.body \in {B_one, B_two, B_three, B_four}

ChoiceEffects(t) ==
    LET body == threads[t].msg.body
        stored == threads[t].session[1].data[1][2]
    IN  <<StartThread("run_announce", <<ChosenModel(body), stored>>),
          send_whatsapp_text("Announcement played using model {choice}", <<body>>),
          ClearSession>>

C5_Effects ==
    \A t \in DOMAIN threads :
        IsValidChoice(t) =>
            /\ threads[t].log \o threads[t].plan = ChoiceEffects(t)
            /\ Done(t) =>
                  /\ Cardinality(Started(t)) = 1
                  /\ \A w \in Started(t) :
                        /\ w.target = "run_announce"
                        /\ w.args = <<ChosenModel(threads[t].msg.body),
                                      threads[t].session[1].data[1][2]>>

C5_Cleared ==
    \A t \in DOMAIN threads :
        (/\ IsValidChoice(t)
         /\ ~Done(t)
         /\ Done(t)') => threads[t].sender \notin DOMAIN SESSIONS'

---------------------------------------------------------------------------
(* The three pending states, each entered by its command and then sent     *)
(* inputs it does not accept, a word or an image, or a voice note          *)

PendingMsgs ==
    {TextMsg(Alice, b) : b \in {B_announce_text, B_announce_voice, B_bellmode_today, B_hello}}
    \cup {OtherMsg(Alice), AudioMsg(Alice, <<"m">>)}

NextPending == Receive(PendingMsgs, MaxRace) \/ Run \/ Clock({301})
SpecPending == Init /\ [][NextPending]_vars

\* a time of day written HH:MM
IsClockTime(s) ==
    /\ Len(s) = 5
    /\ s[3] = ":"
    /\ \A i \in {1, 2, 4, 5} : s[i] \in {"0","1","2","3","4","5","6","7","8","9"}

\* a text that is a comma separated list of HH:MM values
IsTimeList(body) ==
    LET times == strip_nonempty(split_on(body, ",")) IN
    /\ times # <<>>
    /\ \A i \in 1..Len(times) : IsClockTime(times[i])

\* the message of thread t is not an input its pending state accepts
Malformed(t) ==
    LET th == threads[t] IN
    /\ th.session # None
    /\ \/ /\ th.session[1].expect = "announce_model"
          /\ \/ th.msg.type # "text"
             \/ strip(th.msg.body) \notin {<<"1">>, <<"2">>, <<"3">>, <<"4">>}
       \/ /\ th.session[1].expect = "announce_wait_voice"
          /\ th.msg.type # "audio"
       \/ /\ th.session[1].expect = "bell_today_input"
          /\ \/ th.msg.type # "text"
             \/ ~IsTimeList(th.msg.body)

(* C6: malformed continuation input is idempotent in every pending state.  *)
(* A thread that continues announce_model, announce_wait_voice or          *)
(* bell_today_input with an input the state does not accept has one        *)
(* effect, a reply: it does not clear or replace the session and starts no *)
(* background thread; and two threads that continue the same session with  *)
(* the same malformed input have the same effects, so the same re-prompt   *)
(* is sent both times.                                                     *)
C6_MalformedIdempotent ==
    /\ \A t \in DOMAIN threads :
           Malformed(t) =>
               LET effects == threads[t].log \o threads[t].plan IN
               /\ Len(effects) = 1
               /\ effects[1].op = "send_whatsapp_text"
               /\ Started(t) = {}
    /\ \A t1 \in DOMAIN threads : \A t2 \in DOMAIN threads :
           (/\ Malformed(t1) /\ Malformed(t2)
            /\ threads[t1].msg = threads[t2].msg
            /\ threads[t1].session[1].sid = threads[t2].session[1].sid) =>
               threads[t1].log \o threads[t1].plan = threads[t2].log \o threads[t2].plan

---------------------------------------------------------------------------
(* C7: a failed media fetch ends the voice-note conversation.  A thread    *)
(* that continues announce_wait_voice with an audio message and gets no    *)
(* media URL, or gets the URL and no downloaded file, has exactly two      *)
(* effects: the specific failure reply ("Failed to get media URL." when    *)
(* the URL was not obtained, "Failed to download voice." otherwise) and    *)
(* clear_session; it starts no playback thread, it never ends without      *)
(* them, and the step that ends it leaves the sender without a session.    *)

MediaFailed(t) ==
    /\ Continues(t, "announce_wait_voice")
    /\ threads[t].msg.type = "audio"
    /\ threads[t].fetched # None
    /\ \/ threads[t].fetched[1].raised
       \/ threads[t].fetched[1].url = <<>>
       \/ threads[t].fetched[1].path = <<>>

FailureReply(t) ==
    IF threads[t].fetched[1].url = <<>>
    THEN send_whatsapp_text("Failed to get media URL.", <<>>)
    ELSE send_whatsapp_text("Failed to download voice.", <<>>)

C7_Effects ==
    \A t \in DOMAIN threads :
        MediaFailed(t) =>
            /\ threads[t].log \o threads[t].plan = <<FailureReply(t), ClearSession>>
            /\ threads[t].pc \in {"run", "done"}
            /\ Started(t) = {}

C7_Cleared ==
    \A t \in DOMAIN threads :
        (MediaFailed(t) /\ threads[t].pc = "run" /\ threads'[t].pc # "run") =>
            /\ threads'[t].log = <<FailureReply(t), ClearSession>>
            /\ threads[t].sender \notin DOMAIN SESSIONS'

C7_MediaFailure == [](C7_Effects) /\ [][C7_Cleared]_vars

---------------------------------------------------------------------------
(* The announcement commands while the operator edits the directory from   *)
(* the shell menu                                                          *)

GatingMsgs ==
    {TextMsg(Alice, b) : b \in {B_announcement_text, B_announce_voice, B_two}}
    \cup {AudioMsg(Alice, <<"m">>)}

NextGating ==
    \/ Receive(GatingMsgs, MaxMsgs)
    \/ Run
    \/ \E role \in Roles : shell_settings_menu(Alice, role)
SpecGating == Init /\ [][NextGating]_vars

(* C8: announcement gating.  In every reachable state, a session expecting *)
(* announce_model or announce_wait_voice was stored by a command whose     *)
(* sender get_role resolved to admin or developer; every run_announce      *)
(* thread, and every playback thread started by a continuation, was        *)
(* started from such a session; and a teacher's "/announcement text X"     *)
(* has the single effect of the reply "Not allowed.", so that it stores no *)
(* session and starts no thread.                                           *)
AnnounceStates == {"announce_model", "announce_wait_voice"}

C8_AnnouncementGating ==
    /\ \A s \in DOMAIN SESSIONS :
           SESSIONS[s].expect \in AnnounceStates =>
               SESSIONS[s].role \in {"admin", "developer"}
    /\ \A w \in workers :
           (w.target = "run_announce" \/ w.session # None) =>
               /\ w.session # None
               /\ w.session[1].expect \in AnnounceStates
               /\ w.session[1].role \in {"admin", "developer"}
    /\ \A t \in DOMAIN threads :
           (Fresh(t) /\ threads[t].role = "teacher" /\ IsText(t, B_announcement_text)) =>
               /\ threads[t].log \o threads[t].plan = <<NotAllowed>>
               /\ Started(t) = {}

\* a teacher was refused: the reply is the only effect, no session is stored
\* and no thread runs
C8_Witness ==
    /\ \E t \in DOMAIN threads :
           /\ Done(t) /\ Fresh(t) /\ threads[t].role = "teacher"
           /\ IsText(t, B_announcement_text)
           /\ threads[t].log = <<NotAllowed>>
    /\ SESSIONS = EmptyDict
    /\ workers = {}

---------------------------------------------------------------------------
(* One command of each gated family, from a sender of every role *)

B_bellmode == <<"/","b","e","l","l","m","o","d","e">>
B_assembly_1 == <<"/","a","s","s","e","m","b","l","y"," ","1">>
B_settings == <<"/","s","e","t","t","i","n","g","s">>
B_schedule_list == <<"/","s","c","h","e","d","u","l","e"," ","l","i","s","t">>

GatedMsgs ==
    {TextMsg(Alice, b) :
         b \in {B_bellmode, B_assembly_1, B_announce_voice, B_settings, B_schedule_list}}

NextGated == Receive(GatedMsgs, MaxMsgs) \/ Run \/ Clock({301})
SpecGated == Init /\ [][NextGated]_vars

\* the command name: the first whitespace-delimited token of the text
CommandName(body) == split_all(body)[1]

\* the roles a command family is open to; every role for the other commands
AllowedRoles(name) ==
    IF name \in {T_bellmode, T_assembly} THEN {"teacher", "developer"}
    ELSE IF name \in {T_announce, T_announcement} THEN {"admin", "developer"}
    ELSE IF name \in {T_settings, T_schedule} THEN {"developer"}
    ELSE Roles

Denied(t) ==
    /\ Fresh(t)
    /\ IsSlashCommand(threads[t].msg)
    /\ threads[t].role \notin AllowedRoles(CommandName(strip(threads[t].msg.body)))

(* C9: every denial is answered with the not-allowed reply.  A command of  *)
(* a gated family (bellmode, assembly, announce or announcement, settings, *)
(* schedule) from a sender whose role is outside the family's allowed set  *)
(* has exactly one effect, the reply "Not allowed.": no session change, no *)
(* store mutation, no background thread, no other reply and not none.      *)
C9_DenialReply ==
    \A t \in DOMAIN threads :
        Denied(t) =>
            /\ threads[t].log \o threads[t].plan = <<NotAllowed>>
            /\ Started(t) = {}

---------------------------------------------------------------------------
(* Bell schedules: a developer stores a schedule with no times, and the    *)
(* saved schedules are put to use by name                                  *)

B_schedule_create_E == <<"/","s","c","h","e","d","u","l","e"," ","c","r","e","a","t","e"," ","E","|">>
B_bellmode_use_E == <<"/","b","e","l","l","m","o","d","e"," ","u","s","e"," ","E">>
B_bellmode_use_Regular_Day ==
    <<"/","b","e","l","l","m","o","d","e"," ","u","s","e"," ","R","e","g","u","l","a","r"," ","D","a","y">>
B_bellmode_use_Z == <<"/","b","e","l","l","m","o","d","e"," ","u","s","e"," ","Z">>

BellMsgs ==
    {TextMsg(Alice, b) :
         b \in {B_schedule_create_E, B_bellmode_use_E, B_bellmode_use_Regular_Day,
                B_bellmode_use_Z}}

NextBell == Receive(BellMsgs, MaxMsgs) \/ Run \/ Clock({301})
SpecBell == Init /\ [][NextBell]_vars

\* the schedule name of a "/bellmode use <name>" text
UsedName(body) == strip(split(strip(body), 2)[3])

IsBellmodeUse(msg) ==
    /\ msg.type = "text"
    /\ Len(split(strip(msg.body), 2)) = 3
    /\ split(strip(msg.body), 2)[1] = T_bellmode
    /\ split(strip(msg.body), 2)[2] = T_use

(* C10: "/bellmode use <name>" by a teacher or developer with no live      *)
(* session.  At the step that takes the command, if the store holds a      *)
(* schedule of that name, whatever its time list, the command's effects    *)
(* are the start of ringBell with exactly the stored times and the reply   *)
(* "Started schedule '<name>'"; if the store holds none of that name, the  *)
(* only effect is the reply "Schedule '<name>' not found.".  No session is *)
(* set in either case.                                                     *)
C10_Use ==
    \A t \in (DOMAIN threads') \ (DOMAIN threads) :
        LET th == threads'[t]
            name == UsedName(th.msg.body)
            i == sched_index(BELL_SCHEDULES, name)
        IN  (/\ th.sender # <<>>
             /\ th.session = None
             /\ IsBellmodeUse(th.msg)
             /\ th.role \in {"teacher", "developer"}) =>
                IF i # 0
                THEN th.plan = <<StartThread("ringBell", <<BELL_SCHEDULES[i][2]>>),
                                 send_whatsapp_text("Started schedule '{name}'", <<name>>)>>
                ELSE th.plan = <<send_whatsapp_text("Schedule '{name}' not found.", <<name>>)>>

C10_BellmodeUse == [][C10_Use]_vars

---------------------------------------------------------------------------
(* Schedule creation: a developer creates Sports Day, creates it again     *)
(* with other times, lists the schedules and puts Sports Day to use        *)

T_Sports_Day == <<"S","p","o","r","t","s"," ","D","a","y">>
T_0900 == <<"0","9",":","0","0">>
T_1015 == <<"1","0",":","1","5">>
T_1100 == <<"1","1",":","0","0">>
B_schedule_create_Sports_Day == <<"/","s","c","h","e","d","u","l","e"," ","c","r","e","a","t","e"," ","S","p","o","r","t","s"," ","D","a","y","|","0","9",":","0","0",",","1","0",":","1","5">>
B_schedule_create_Sports_Day_1100 == <<"/","s","c","h","e","d","u","l","e"," ","c","r","e","a","t","e"," ","S","p","o","r","t","s"," ","D","a","y","|","1","1",":","0","0">>
B_bellmode_use_Sports_Day == <<"/","b","e","l","l","m","o","d","e"," ","u","s","e"," ","S","p","o","r","t","s"," ","D","a","y">>

CreateMsgs ==
    {TextMsg(Alice, b) :
         b \in {B_schedule_create_Sports_Day, B_schedule_create_Sports_Day_1100,
                B_schedule_list, B_bellmode_use_Sports_Day}}

NextCreate == Receive(CreateMsgs, MaxMsgs) \/ Run \/ Clock({301})
SpecCreate == Init /\ [][NextCreate]_vars

\* the times a create command of the alphabet names, in the order written
CreatedTimes(body) ==
    IF body = B_schedule_create_Sports_Day THEN <<T_0900, T_1015>> ELSE <<T_1100>>

IsCreate(th) ==
    /\ th.sender # <<>> /\ th.session = None /\ th.role = "developer"
    /\ th.msg.type = "text"
    /\ th.msg.body \in {B_schedule_create_Sports_Day, B_schedule_create_Sports_Day_1100}

IsList(th) ==
    /\ th.sender # <<>> /\ th.session = None /\ th.role = "developer"
    /\ th.msg.type = "text" /\ th.msg.body = B_schedule_list

\* the effects of a create command: the store update, then the confirmation
C11_Effects ==
    \A t \in DOMAIN threads :
        IsCreate(threads[t]) =>
            threads[t].log \o threads[t].plan =
                <<UpdateSchedule(T_Sports_Day, CreatedTimes(threads[t].msg.body)),
                  send_whatsapp_text("Schedule '{name}' created.", <<T_Sports_Day>>)>>

\* the step that performs the update leaves the name mapped to the list
C11_Stored ==
    \A t \in DOMAIN threads :
        (IsCreate(threads[t]) /\ Len(threads[t].log) = 0 /\ Len(threads'[t].log) = 1) =>
            /\ sched_index(BELL_SCHEDULES', T_Sports_Day) # 0
            /\ get_schedule(BELL_SCHEDULES', T_Sports_Day) = CreatedTimes(threads[t].msg.body)

\* a list command taken after a create has stored its schedule replies with
\* the names, the created one among them
C11_Listed ==
    \A t \in (DOMAIN threads') \ (DOMAIN threads) :
        (/\ IsList(threads'[t])
         /\ \E c \in DOMAIN threads : IsCreate(threads[c]) /\ Len(threads[c].log) >= 1) =>
            /\ Len(threads'[t].plan) = 1
            /\ threads'[t].plan[1].op = "send_whatsapp_text"
            /\ threads'[t].plan[1].text = "Saved schedules: {names}"
            /\ \E i \in 1..Len(threads'[t].plan[1].arg) :
                   threads'[t].plan[1].arg[i] = T_Sports_Day

(* C11: schedule create/list round trip.  A developer's "/schedule create  *)
(* Sports Day|09:00,10:15" updates the store and then sends the reply      *)
(* "Schedule 'Sports Day' created."; after the update the store maps       *)
(* Sports Day to exactly <<09:00, 10:15>>, in that order, replacing what   *)
(* it held; and, no delete or rename taking place, every later             *)
(* "/schedule list" by a developer names Sports Day in its reply.          *)
C11_CreateList == [](C11_Effects) /\ [][C11_Stored /\ C11_Listed]_vars

\* Sports Day was created with 11:00, created again with 09:00,10:15, and
\* holds the latter
C11_Witness ==
    /\ \E t1 \in DOMAIN threads : \E t2 \in DOMAIN threads :
           /\ t1 < t2 /\ Done(t1) /\ Done(t2)
           /\ IsCreate(threads[t1]) /\ threads[t1].msg.body = B_schedule_create_Sports_Day_1100
           /\ IsCreate(threads[t2]) /\ threads[t2].msg.body = B_schedule_create_Sports_Day
    /\ get_schedule(BELL_SCHEDULES, T_Sports_Day) = <<T_0900, T_1015>>
    /\ list_schedule_names(BELL_SCHEDULES) = <<T_Regular_Day, T_Sports_Day>>

---------------------------------------------------------------------------
(* Command names that are not the known ones: a longer word that starts    *)
(* with a known name, and a word that starts with none                     *)

B_assemblyx_6 == <<"/","a","s","s","e","m","b","l","y","x"," ","6">>
B_assembly_6 == <<"/","a","s","s","e","m","b","l","y"," ","6">>
B_announcements_voice == <<"/","a","n","n","o","u","n","c","e","m","e","n","t","s"," ","v","o","i","c","e">>
B_foo == <<"/","f","o","o">>

UnknownMsgs ==
    {TextMsg(Alice, b) : b \in {B_assemblyx_6, B_assembly_6, B_announcements_voice, B_foo}}

NextUnknown == Receive(UnknownMsgs, MaxMsgs) \/ Run \/ Clock({301})
SpecUnknown == Init /\ [][NextUnknown]_vars

KnownNames ==
    {T_help, T_about, T_bellmode, T_assembly, T_announce, T_announcement, T_settings,
     T_schedule}

(* C12: unknown command names.  A prefixed text whose first                *)
(* whitespace-delimited token is none of /help, /about, /bellmode,         *)
(* /assembly, /announce, /announcement, /settings, /schedule has one       *)
(* effect, the reply "Unknown command. Type /help", for every role: no     *)
(* background thread, no session, no store mutation ("/assemblyx 6" does   *)
(* not ring the bell).                                                     *)
C12_UnknownNames ==
    \A t \in DOMAIN threads :
        (/\ Fresh(t)
         /\ IsSlashCommand(threads[t].msg)
         /\ CommandName(strip(threads[t].msg.body)) \notin KnownNames) =>
            /\ threads[t].log \o threads[t].plan = <<UnknownCommand>>
            /\ Started(t) = {}

---------------------------------------------------------------------------
(* Command names written in upper and mixed case *)

B_HELP == <<"/","H","E","L","P">>
B_Announce_text_Hi_All == <<"/","A","n","n","o","u","n","c","e"," ","t","e","x","t"," ","H","i"," ","A","l","l">>
B_assembly_1_upper == <<"/","A","S","S","E","M","B","L","Y"," ","1">>

CaseMsgs ==
    {TextMsg(Alice, b) :
         b \in {B_help, B_HELP, B_Announce_text_Hi_All, B_assembly_1, B_assembly_1_upper}}

NextCase == Receive(CaseMsgs, MaxMsgs) \/ Run \/ Clock({301})
SpecCase == Init /\ [][NextCase]_vars

UpperLetters == <<"A","B","C","D","E","F","G","H","I","J","K","L","M","N","O","P","Q","R","S","T","U","V","W","X","Y","Z">>
LowerLetters == <<"a","b","c","d","e","f","g","h","i","j","k","l","m","n","o","p","q","r","s","t","u","v","w","x","y","z">>

\* the lower-case form of a character
LowerChar(ch) ==
    IF \E i \in 1..Len(UpperLetters) : UpperLetters[i] = ch
    THEN LowerLetters[CHOOSE i \in 1..Len(UpperLetters) : UpperLetters[i] = ch]
    ELSE ch

\* the text with its command name, the first token, in lower case and the
\* rest as written
LowerName(body) ==
    LET n == TokenLen(body) IN
    [i \in 1..Len(body) |-> IF i <= n THEN LowerChar(body[i]) ELSE body[i]]

(* C13: command names are matched without regard to case, arguments keep   *)
(* their case.  At the step that takes a command from a sender with no     *)
(* session, the effects of the command (replies, session stored, thread    *)
(* started) are those handle_slash_command has for the same text with the  *)
(* command name in lower case, for every role; so "/HELP" is answered as   *)
(* "/help" is, and "/Announce text Hi All" stores the body "Hi All".       *)
C13_Step ==
    \A t \in (DOMAIN threads') \ (DOMAIN threads) :
        LET th == threads'[t] IN
        (th.sender # <<>> /\ th.session = None /\ IsSlashCommand(th.msg)) =>
            th.plan = handle_slash_command(LowerName(strip(th.msg.body)), th.role,
                                           BELL_SCHEDULES)

C13_NameCase == [][C13_Step]_vars

---------------------------------------------------------------------------
(* C14: the set of expected states is closed.  In every reachable state,   *)
(* every session in SESSIONS expects a state that handle_session_message   *)
(* has a branch of its own for, announce_model or announce_wait_voice; no  *)
(* command stores a state that the handler answers only with "Session      *)
(* expired or unknown.".                                                   *)
\* whether handle_session_message answers a session with its fallback alone,
\* whatever the message
OnlyFallback(session) ==
    \A msg \in {TextMsg(Alice, B_hello), TextMsg(Alice, B_one), AudioMsg(Alice, <<"m">>),
                OtherMsg(Alice)} :
        \A resp \in MetaResponses : \A status \in DownloadStatuses :
            handle_session_message(session, msg, ACCESS_TOKEN, resp, status)
                = <<SessionUnknown, ClearSession>>

C14_ClosedStates ==
    \A s \in DOMAIN SESSIONS : ~OnlyFallback(SESSIONS[s])

---------------------------------------------------------------------------
(* The commands and continuations that start a background action *)

B_assembly_11 == <<"/","a","s","s","e","m","b","l","y"," ","1","1">>

ActionMsgs ==
    {TextMsg(Alice, b) :
         b \in {B_bellmode_use_Regular_Day, B_assembly_1, B_assembly_6, B_assembly_11,
                B_announce_text, B_two, B_announce_voice}}
    \cup {AudioMsg(Alice, <<"m">>)}

NextAction == Receive(ActionMsgs, MaxMsgs) \/ Run \/ Clock({301})
SpecAction == Init /\ [][NextAction]_vars

\* thread t is on a path that starts a background action
InvokesAction(t) ==
    \E i \in 1..Len(threads[t].log \o threads[t].plan) :
        (threads[t].log \o threads[t].plan)[i].op = "Thread.start"

\* the handler's steps do not wait: while it has effects left, its next
\* step can be taken, whatever the background threads have done; and what
\* it does besides starting the action is its acknowledgment and, in a
\* continuation, clear_session
C15_NoWait ==
    \A t \in DOMAIN threads :
        InvokesAction(t) =>
            LET effects == threads[t].log \o threads[t].plan IN
            /\ threads[t].pc \in {"run", "done"}
            /\ threads[t].pc = "run" => ENABLED perform(t)
            /\ Done(t) => threads[t].plan = <<>>
            /\ \E i \in 1..Len(effects) : effects[i].op = "send_whatsapp_text"
            /\ (threads[t].session # None) => effects[Len(effects)] = ClearSession

\* the step that starts the action submits it and returns: the thread it
\* starts has made none of its blocking calls
C15_Submitted ==
    \A t \in DOMAIN threads :
        (/\ threads[t].pc = "run"
         /\ Head(threads[t].plan).op = "Thread.start"
         /\ threads'[t].log # threads[t].log) =>
            \E w \in workers' \ workers : w.by = t /\ w.done = 0 /\ ~Finished(w)

---------------------------------------------------------------------------
(* The settings commands of a process started with or without an online    *)
(* TTS client                                                              *)

B_settings_setopenai == <<"/","s","e","t","t","i","n","g","s"," ","s","e","t","o","p","e","n","a","i"," ","K">>

SettingsMsgs ==
    {TextMsg(Alice, b) : b \in {B_settings, B_settings_setopenai, B_assembly_1}}

InitSettings == InitWith({Alice}, {None, Some(<<"o">>)})
NextSettings == Receive(SettingsMsgs, MaxMsgs) \/ Run \/ Clock({301})
SpecSettings == InitSettings /\ [][NextSettings]_vars

(* C16: "/settings setopenai KEY" by a developer when the client fails to  *)
(* initialize.  At the step that reloads the client, if no client is made  *)
(* from the new key, then the handler has not crashed, the client in use   *)
(* is the one in use before the step (possibly none), and the reply the    *)
(* handler goes on to send is not the success reply "OpenAI key saved &    *)
(* loaded.".                                                               *)
C16_Step ==
    \A t \in DOMAIN threads :
        (/\ threads[t].pc = "run"
         /\ Head(threads[t].plan).op = "init_openai_client"
         /\ threads'[t] # threads[t]
         /\ openai_client' # Some(Head(threads[t].plan).arg[1])) =>
            /\ threads'[t].pc = "run"
            /\ openai_client' = openai_client
            /\ \A i \in 1..Len(threads'[t].plan) :
                   threads'[t].plan[i] # send_whatsapp_text("OpenAI key saved & loaded.", <<>>)

C16_SetOpenAIFailure == [][C16_Step]_vars

---------------------------------------------------------------------------
(* Events that are not commands: a word, a voice note, an image, from a    *)
(* sender with no session or with one that has expired                     *)

PlainMsgs ==
    {TextMsg(Alice, b) : b \in {B_hello, B_announce_text, B_assembly_1}}
    \cup {AudioMsg(Alice, <<"m">>), OtherMsg(Alice)}

NextPlain == Receive(PlainMsgs, MaxMsgs) \/ Run \/ Clock({301})
SpecPlain == Init /\ [][NextPlain]_vars

\* the sessions of S that a read at time t returns
LiveSessions(S, t) ==
    [s \in {x \in DOMAIN S : ~Expired(S[x], t)} |-> S[s]]

IsPlain(th) ==
    /\ th.sender # <<>>
    /\ th.session = None
    /\ ~IsSlashCommand(th.msg)

\* the reply to an event that is not a command, by the type of the event
PlainReply(msg) ==
    IF msg.type = "text"
    THEN send_whatsapp_text("Welcome to JOTHI WhatsApp bot. Type /help to see commands.", <<>>)
    ELSE IF msg.type = "audio"
    THEN send_whatsapp_text("To use a voice note for announcement, please send /announce voice first.", <<>>)
    ELSE send_whatsapp_text("Message type not supported. Use /help", <<>>)

C17_Effects ==
    \A t \in DOMAIN threads :
        IsPlain(threads[t]) =>
            /\ threads[t].log \o threads[t].plan = <<PlainReply(threads[t].msg)>>
            /\ threads[t].fetched = None
            /\ threads[t].pc \in {"run", "done"}
            /\ Started(t) = {}

\* every step of the handler of such an event, the lookup and the reply,
\* leaves the live sessions, the stores and the background threads as they
\* were
C17_Step ==
    \A t \in DOMAIN threads' :
        (/\ IsPlain(threads'[t])
         /\ \/ t \notin DOMAIN threads
            \/ threads'[t] # threads[t]) =>
            /\ LiveSessions(SESSIONS', now') = LiveSessions(SESSIONS, now)
            /\ UNCHANGED <<AUTH_USERS, BELL_SCHEDULES, ACCESS_TOKEN, PHONE_NUMBER_ID,
                           openai_client, workers, nsess, now>>

---------------------------------------------------------------------------
(* Commands of every family from a sender whose directory entry is absent, *)
(* or set and changed from the shell menu                                  *)

RolesMsgs ==
    {TextMsg(Alice, b) :
         b \in {B_bellmode_use_Regular_Day, B_assembly_1, B_announce_voice,
                B_settings_setopenai, B_schedule_create_E}}

NextRoles ==
    \/ Receive(RolesMsgs, MaxMsgs)
    \/ Run
    \/ \E role \in Roles : shell_settings_menu(Alice, role)
SpecRoles == Init /\ [][NextRoles]_vars

\* the role the directory gives an identity
DirectoryRole(id) == IF id \in DOMAIN AUTH_USERS THEN AUTH_USERS[id] ELSE "teacher"

\* get_role has a value, one of the roles, for identities in the directory
\* and outside it, and "teacher" for those outside it
C18_Total ==
    \A id \in {Alice, Bob, <<"+">>, <<"+", "1", "2">>} :
        /\ get_role(AUTH_USERS, id) \in Roles
        /\ get_role(AUTH_USERS, id) = DirectoryRole(id)
        /\ id \notin DOMAIN AUTH_USERS => get_role(AUTH_USERS, id) = "teacher"

\* the role a command is dispatched with is the directory's at that step,
\* and a sender outside the directory runs the bell commands and is refused
\* the others with a reply alone
C18_Step ==
    \A t \in (DOMAIN threads') \ (DOMAIN threads) :
        LET th == threads'[t]
            name == CommandName(strip(th.msg.body))
        IN  (th.sender # <<>> /\ th.session = None /\ IsSlashCommand(th.msg)) =>
                /\ th.role = DirectoryRole(th.sender)
                /\ th.sender \notin DOMAIN AUTH_USERS =>
                       IF name \in {T_bellmode, T_assembly}
                       THEN /\ th.plan = handle_slash_command(strip(th.msg.body), "teacher",
                                                              BELL_SCHEDULES)
                            /\ th.plan[1].op = "Thread.start"
                       ELSE th.plan \in {<<NotAllowed>>, <<UnknownCommand>>}

(* C18: role resolution is total and deterministic.  get_role gives every  *)
(* identity exactly one role, the directory's entry, or "teacher" when the *)
(* directory has none; a command is dispatched with that role, so the same *)
(* identity gets the same role while the directory is unchanged; and a     *)
(* sender absent from the directory runs the bell-control commands         *)
(* (bellmode, assembly) and runs no announcement, settings or schedule     *)
(* command, which get a reply and no other effect.                         *)
C18_RoleResolution == [](C18_Total) /\ [][C18_Step]_vars

\* a sender outside the directory has rung the Regular Day schedule and was
\* refused a voice announcement
C18_Witness ==
    /\ Alice \notin DOMAIN AUTH_USERS
    /\ \E t1 \in DOMAIN threads : \E t2 \in DOMAIN threads :
           /\ Done(t1) /\ IsText(t1, B_bellmode_use_Regular_Day)
           /\ threads[t1].role = "teacher"
           /\ \E w \in Started(t1) : w.target = "ringBell"
           /\ Done(t2) /\ IsText(t2, B_announce_voice)
           /\ threads[t2].log = <<NotAllowed>>
    /\ SESSIONS = EmptyDict

---------------------------------------------------------------------------
(* Error paths: schedule commands on a name the store does not hold, an    *)
(* unknown command, a voice note whose retrieval can fail                  *)

B_schedule_rename_Z == <<"/","s","c","h","e","d","u","l","e"," ","r","e","n","a","m","e"," ","Z","|","Y">>
B_schedule_delete_Z == <<"/","s","c","h","e","d","u","l","e"," ","d","e","l","e","t","e"," ","Z">>

ErrorMsgs ==
    {TextMsg(Alice, b) :
         b \in {B_schedule_rename_Z, B_schedule_delete_Z, B_foo, B_announce_voice}}
    \cup {AudioMsg(Alice, <<"m">>)}

NextError == Receive(ErrorMsgs, MaxMsgs) \/ Run \/ Clock({301})
SpecError == Init /\ [][NextError]_vars

\* thread t is on an error path of the alphabet
OnErrorPath(t) ==
    \/ Fresh(t) /\ (IsText(t, B_schedule_rename_Z) \/ IsText(t, B_schedule_delete_Z)
                    \/ IsText(t, B_foo))
    \/ threads[t].session # None /\ threads[t].msg.type # "audio"
    \/ MediaFailed(t)

(* C19: every error path ends in a reply.  For every event with a sender   *)
(* (a denied, malformed or unknown command, a failed media retrieval, a    *)
(* "/schedule rename" or "/schedule delete" of a name the store does not   *)
(* hold) the handler does not end by an exception, it sends at least one   *)
(* reply, and on an error path it stores no session: the sender's session  *)
(* is left as it was or cleared.                                           *)
C19_ErrorPathsReply ==
    \A t \in DOMAIN threads :
        LET effects == threads[t].log \o threads[t].plan IN
        /\ threads[t].sender # <<>> =>
               /\ threads[t].pc \in {"run", "done"}
               /\ \E i \in 1..Len(effects) : effects[i].op = "send_whatsapp_text"
        /\ OnErrorPath(t) =>
               \A i \in 1..Len(effects) : effects[i].op # "set_session"

---------------------------------------------------------------------------
(* The verification handshake: GET /webhook of both modules *)

Forbidden == [body |-> Some("Forbidden"), status |-> 403]

\* a view that looks at the token alone
verify_token_only(mode, token, chal, secret) ==
    IF token = Some(secret) THEN [body |-> chal, status |-> 200] ELSE Forbidden

\* verify of whatsapp_integration.py: what the view returns for the query
\* arguments hub.mode, hub.verify_token and hub.challenge (None when absent)
verify(mode, token, chal, secret) ==
    IF mode = Some("subscribe") /\ token = Some(secret)
    THEN [body |-> chal, status |-> 200]
    ELSE Forbidden

\* verify_webhook of whatsapp_server.py
verify_webhook(mode, token, chal, secret) ==
    IF mode = Some("subscribe") /\ token = Some(secret)
    THEN [body |-> chal, status |-> 200]
    ELSE Forbidden

\* the query arguments a GET request can carry
Modes == {None, Some("subscribe"), Some("unsubscribe")}
Tokens == {None, Some("JOTHI_VERIFY"), Some("s3cret"), Some("wrong")}
Challenges == {None, Some("1158201444"), Some("c")}
Secrets == {"JOTHI_VERIFY", "s3cret"}

\* a GET /webhook request served by the integration module
get_webhook_integration ==
    /\ \E mode \in Modes, token \in Tokens, chal \in Challenges :
           handshake' = Some([endpoint |-> "verify", mode |-> mode, token |-> token,
                              chal |-> chal,
                              response |-> verify(mode, token, chal, VERIFY_TOKEN)])
    /\ UNCHANGED <<AUTH_USERS, SESSIONS, BELL_SCHEDULES, ACCESS_TOKEN, PHONE_NUMBER_ID,
                   openai_client, now, threads, workers, nmsgs, nsess, VERIFY_TOKEN, served>>

\* a GET /webhook request served by the standalone server
get_webhook_server ==
    /\ \E mode \in Modes, token \in Tokens, chal \in Challenges :
           handshake' = Some([endpoint |-> "verify_webhook", mode |-> mode,
                              token |-> token, chal |-> chal,
                              response |-> verify_webhook(mode, token, chal, VERIFY_TOKEN)])
    /\ UNCHANGED <<AUTH_USERS, SESSIONS, BELL_SCHEDULES, ACCESS_TOKEN, PHONE_NUMBER_ID,
                   openai_client, now, threads, workers, nmsgs, nsess, VERIFY_TOKEN, served>>

InitVerify ==
    /\ InitEngine({Alice}, {None})
    /\ VERIFY_TOKEN \in Secrets
    /\ handshake = None
    /\ served = None
NextVerify == get_webhook_integration \/ get_webhook_server
SpecVerify == InitVerify /\ [][NextVerify]_vars

(* C20 as stated: in both modules the GET endpoint returns the challenge    *)
(* unchanged with status 200 whenever the verify token of the request      *)
(* equals the configured secret, and Forbidden with status 403 whenever it *)
(* does not; nothing but the equality of the tokens decides.               *)
C20_TokenEqualityOnly ==
    handshake # None =>
        LET h == handshake[1] IN
        IF h.token = Some(VERIFY_TOKEN)
        THEN h.response = [body |-> h.chal, status |-> 200]
        ELSE h.response = Forbidden

(* C20, amended: in both modules the GET endpoint returns the challenge of *)
(* the request unchanged with status 200 whenever hub.mode is "subscribe"  *)
(* and the verify token equals the configured secret, and Forbidden with   *)
(* status 403 in every other case; nothing but the mode and the equality   *)
(* of the tokens decides.                                                  *)
C20_ModeAndToken ==
    handshake # None =>
        LET h == handshake[1] IN
        IF h.mode = Some("subscribe") /\ h.token = Some(VERIFY_TOKEN)
        THEN h.response = [body |-> h.chal, status |-> 200]
        ELSE h.response = Forbidden

\* the right token with a mode that is not "subscribe" was refused
C20_Witness ==
    /\ handshake # None
    /\ handshake[1].token = Some(VERIFY_TOKEN)
    /\ handshake[1].mode = Some("unsubscribe")
    /\ handshake[1].chal = Some("c")
    /\ handshake[1].response = Forbidden

---------------------------------------------------------------------------
(* Re-prompts while the clock runs: an announcement command, inputs its    *)
(* state does not accept at 150 and 300 seconds, a read after 301          *)

RepromptMsgs ==
    {TextMsg(Alice, b) : b \in {B_announce_text, B_hello, B_two}}

\* the sender is an admin
InitReprompt == Init /\ get_role(AUTH_USERS, Alice) = "admin"
NextReprompt == Receive(RepromptMsgs, MaxRace) \/ Run \/ Clock({150, 151})
SpecReprompt == InitReprompt /\ [][NextReprompt]_vars

\* the message is not an input the announcement state accepts
MalformedFor(expect, msg) ==
    \/ /\ expect = "announce_model"
       /\ \/ msg.type # "text"
          \/ strip(msg.body) \notin {<<"1">>, <<"2">>, <<"3">>, <<"4">>}
    \/ /\ expect = "announce_wait_voice"
       /\ msg.type # "audio"

\* the re-prompt of an announcement state for such a message
Reprompt(expect, msg) ==
    IF expect = "announce_wait_voice" THEN SendVoiceNote
    ELSE IF msg.type # "text" THEN ModelAsText
    ELSE InvalidChoice

\* the read of a malformed input for a stored announcement session: while
\* the session's age is below the limit (at the limit too, when inclusive)
\* the input is re-prompted and the session stays as it is, creation time
\* included; after that the session is gone
C21_Read(inclusive) ==
    \A t \in (DOMAIN threads') \ (DOMAIN threads) :
        LET th == threads'[t]
            s == th.sender
            age == now - SESSIONS[s].ts
        IN  (/\ s \in DOMAIN SESSIONS
             /\ SESSIONS[s].expect \in AnnounceStates
             /\ MalformedFor(SESSIONS[s].expect, th.msg)) =>
                IF age < TTL \/ (inclusive /\ age = TTL)
                THEN /\ th.session = Some(SESSIONS[s])
                     /\ th.plan = <<Reprompt(SESSIONS[s].expect, th.msg)>>
                     /\ SESSIONS' = SESSIONS
                ELSE /\ th.session = None
                     /\ s \notin DOMAIN SESSIONS'

\* the re-prompt itself leaves the sessions as they are, and no step changes
\* the creation time of a session
C21_Kept ==
    /\ \A t \in DOMAIN threads :
           (/\ Malformed(t)
            /\ threads[t].session[1].expect \in AnnounceStates
            /\ threads'[t] # threads[t]) => SESSIONS' = SESSIONS
    /\ \A s \in (DOMAIN SESSIONS) \cap (DOMAIN SESSIONS') :
           SESSIONS'[s].sid = SESSIONS[s].sid => SESSIONS'[s].ts = SESSIONS[s].ts

(* C21 as stated: malformed inputs in announce_model or announce_wait_voice *)
(* never refresh the session's creation time; every one of them is         *)
(* re-prompted until 300 seconds have passed since the command that        *)
(* created the session, and from 300 seconds on the session is gone.       *)
C21_GoneFrom300 == [][C21_Read(FALSE) /\ C21_Kept]_vars

(* C21, amended: malformed inputs in announce_model or announce_wait_voice *)
(* never refresh the session's creation time; every one of them is         *)
(* re-prompted while at most 300 seconds have passed since the command     *)
(* that created the session, exactly 300 included, and once more than 300  *)
(* seconds have passed the session is gone, however many re-prompts there  *)
(* were.                                                                   *)
C21_GoneAfter300 == [][C21_Read(TRUE) /\ C21_Kept]_vars

\* one session was re-prompted at the age of 150 and again at the age of
\* 300 seconds, and is stored with the creation time it had
C21_Witness ==
    \E t1 \in DOMAIN threads : \E t2 \in DOMAIN threads :
        /\ Done(t1) /\ Done(t2)
        /\ Malformed(t1) /\ Malformed(t2)
        /\ threads[t1].session = threads[t2].session
        /\ threads[t1].session[1].expect \in AnnounceStates
        /\ threads[t1].at - threads[t1].session[1].ts = 150
        /\ threads[t2].at - threads[t2].session[1].ts = TTL
        /\ threads[t1].log = <<Reprompt(threads[t1].session[1].expect, threads[t1].msg)>>
        /\ threads[t2].log = threads[t1].log
        /\ Alice \in DOMAIN SESSIONS
        /\ SESSIONS[Alice] = threads[t1].session[1]

---------------------------------------------------------------------------
(* Today's times: "/bellmode today", then texts of comma-separated tokens  *)

B_times == <<"0","9",":","0","0",",","1","0",":","1","5">>
B_tokens == <<"a",",","b">>

TodayMsgs ==
    {TextMsg(Alice, b) :
         b \in {B_bellmode_today, B_times, B_tokens, B_bellmode_use_Regular_Day}}

NextToday == Receive(TodayMsgs, MaxMsgs) \/ Run \/ Clock({301})
SpecToday == Init /\ [][NextToday]_vars

\* the comma-separated tokens of a text, stripped, the empty ones dropped
TokensOf(body) == strip_nonempty(split_on(body, ","))

(* C22: after "/bellmode today" the session expects the list of times.  A  *)
(* text of comma-separated tokens that continues a bell_today_input        *)
(* session is accepted as today's times, whether or not the tokens are     *)
(* HH:MM values: the handler starts ringBell with those tokens and does    *)
(* not answer with the "Session expired or unknown." rejection.            *)
C22_TodayTimesAccepted ==
    \A t \in DOMAIN threads :
        (Continues(t, "bell_today_input") /\ threads[t].msg.type = "text") =>
            LET effects == threads[t].log \o threads[t].plan IN
            /\ \E i \in 1..Len(effects) :
                   effects[i] = StartThread("ringBell", <<TokensOf(threads[t].msg.body)>>)
            /\ \A i \in 1..Len(effects) : effects[i] # SessionUnknown

---------------------------------------------------------------------------
(* The order of the acknowledgment and the thread start *)

\* the effects of thread t in the order of execution: those performed, then
\* those to come
EffectsOf(t) == threads[t].log \o threads[t].plan

\* the position of the thread start among the effects of thread t
StartIndex(t) ==
    CHOOSE i \in 1..Len(EffectsOf(t)) : EffectsOf(t)[i].op = "Thread.start"

Replied(t) ==
    \E i \in 1..Len(threads[t].log) : threads[t].log[i].op = "send_whatsapp_text"

(* C23 as stated: on every path that starts a background action the       *)
(* acknowledgment reply is sent before the thread is started: a reply      *)
(* precedes the thread start among the handler's effects, and no           *)
(* background thread of a handler exists before the handler has replied.   *)
C23_ReplyBeforeStart ==
    \A t \in DOMAIN threads :
        InvokesAction(t) =>
            /\ \E i \in 1..(StartIndex(t) - 1) :
                   EffectsOf(t)[i].op = "send_whatsapp_text"
            /\ Started(t) # {} => Replied(t)

(* C23 as the code has it: on every path that starts a background action   *)
(* the thread is started first and the acknowledgment reply is the next    *)
(* effect, sent without waiting for the action; the handler starts one     *)
(* thread, sends nothing before it, and has replied only when the          *)
(* background thread exists.                                               *)
C23_StartBeforeReply ==
    \A t \in DOMAIN threads :
        InvokesAction(t) =>
            LET effects == EffectsOf(t)
                k == StartIndex(t)
            IN
            /\ \A i \in 1..Len(effects) : effects[i].op = "Thread.start" => i = k
            /\ \A i \in 1..(k - 1) : effects[i].op # "send_whatsapp_text"
            /\ k < Len(effects) /\ effects[k + 1].op = "send_whatsapp_text"
            /\ Replied(t) => Started(t) # {}

\* a handler has started its action and not yet replied, and the action's
\* thread is still running when the reply is sent
C23_Witness ==
    /\ \E t \in DOMAIN threads :
           /\ InvokesAction(t) /\ threads[t].pc = "run"
           /\ Started(t) # {} /\ ~Replied(t)
    /\ \E t \in DOMAIN threads :
           /\ InvokesAction(t) /\ Replied(t)
           /\ \E w \in Started(t) : ~Finished(w)

---------------------------------------------------------------------------
(* The combined assembly sequence *)

\* thread t handles "/assembly 11" as a command of a teacher or a developer
AssemblyBoth(t) ==
    /\ Fresh(t)
    /\ threads[t].msg.type = "text"
    /\ strip(threads[t].msg.body) = B_assembly_11
    /\ threads[t].role \in {"teacher", "developer"}

\* the files whose playback background thread w has finished, and the file it
\* is playing (or about to play) while it has calls left
Played(w) ==
    {worker_calls(w.target, w.args)[i].arg : i \in 1..w.done}
Playing(w) ==
    IF Finished(w) THEN {} ELSE {worker_calls(w.target, w.args)[w.done + 1].arg}

ThreadStarts(t) ==
    {i \in 1..Len(threads[t].log) : threads[t].log[i].op = "Thread.start"}

(* C24: "/assembly 11" by a teacher or developer starts exactly one         *)
(* background thread, which plays the prayer and then the birthday song:   *)
(* the birthday playback is on only after the prayer playback of the same  *)
(* request has finished, the thread plays one file at a time, and no       *)
(* second thread is started for the request.                               *)
C24_State ==
    \A t \in DOMAIN threads :
        AssemblyBoth(t) =>
            /\ Cardinality(Started(t)) = Cardinality(ThreadStarts(t))
            /\ Cardinality(Started(t)) <= 1
            /\ Done(t) => Cardinality(Started(t)) = 1
            /\ \A w \in Started(t) :
                   /\ w.target = "both"
                   /\ Len(worker_calls(w.target, w.args)) = 2
                   /\ Cardinality(Playing(w)) <= 1
                   /\ BirthdayFile \in Playing(w) => Played(w) = {PrayerFile}
                   /\ BirthdayFile \in Played(w) => PrayerFile \in Played(w)
                   /\ w.done = 0 => Playing(w) = {PrayerFile}
                   /\ Finished(w) => Played(w) = {PrayerFile, BirthdayFile}

\* the thread of the request only moves forward, one playback at a time
C24_Step ==
    \A t \in DOMAIN threads : \A w \in workers :
        (AssemblyBoth(t) /\ w.by = t) =>
            \E v \in workers' :
                /\ v.by = t
                /\ v.done \in {w.done, w.done + 1}
                /\ Started(t)' = {v}

C24_AssemblyBoth == []C24_State /\ [][C24_Step]_vars

\* the prayer of a request has been played and its birthday song is playing,
\* on the only thread of the request
C24_Witness ==
    \E t \in DOMAIN threads :
        /\ AssemblyBoth(t) /\ Done(t)
        /\ \E w \in Started(t) :
               /\ Started(t) = {w}
               /\ Played(w) = {PrayerFile}
               /\ Playing(w) = {BirthdayFile}

---------------------------------------------------------------------------
(* The standalone server (src/whatsapp_server.py): one synchronous handler *)
(* per message, gated by a fixed table of authorized numbers               *)

UpperCase == <<"A","B","C","D","E","F","G","H","I","J","K","L","M","N","O","P","Q","R","S","T","U","V","W","X","Y","Z">>
LowerCase == <<"a","b","c","d","e","f","g","h","i","j","k","l","m","n","o","p","q","r","s","t","u","v","w","x","y","z">>

\* str.lower()
str_lower(s) ==
    [i \in 1..Len(s) |->
        IF \E k \in 1..26 : UpperCase[k] = s[i]
        THEN LowerCase[CHOOSE k \in 1..26 : UpperCase[k] = s[i]]
        ELSE s[i]]

T_Principal == <<"+","9","1","9","8","7","6","5","4","3","2","1","0">>
T_Staff == <<"+","9","1","9","8","1","2","3","4","5","6","7","8">>
T_YOUR_WHATSAPP_TOKEN == <<"Y","O","U","R","_","W","H","A","T","S","A","P","P","_","T","O","K","E","N">>
T_help_word == <<"h","e","l","p">>
T_about_word == <<"a","b","o","u","t">>
T_announce_sp == <<"/","a","n","n","o","u","n","c","e"," ">>

\* the table of the numbers that may control the bot
AUTHORIZED_USERS == (T_Principal :> "admin") @@ (T_Staff :> "staff")

\* a table that also lists every number the model sends from
is_authorized_everyone(number) == number # <<>>

is_authorized(number) == number \in DOMAIN AUTHORIZED_USERS

\* AUTHORIZED_USERS.get(number)
get_role_server(number) ==
    IF number \in DOMAIN AUTHORIZED_USERS THEN Some(AUTHORIZED_USERS[number]) ELSE None

\* the calls process_whatsapp_message makes, as records
Call(op, to, text, arg) == [op |-> op, to |-> to, text |-> text, arg |-> arg]
send_whatsapp_text_server(to, text) == Call("send_whatsapp_text", to, text, <<>>)
NotAuthorized(to) == send_whatsapp_text_server(to, "You are not authorized to use this bot.")

\* handle_command: the reply to a command text
handle_command(text, sender) ==
    LET lower == strip(str_lower(text)) IN
    IF lower \in {T_help, T_help_word}
    THEN "JOTHI Bot commands:\n/help - show this message\n/announce <text> - announce (via offline voice)\n/schedule list - list saved schedules\n/about - about JOTHI"
    ELSE IF startswith(lower, T_announce_sp) THEN "Announcement played."
    ELSE IF startswith(lower, T_schedule)
    THEN LET cmd == split_all(lower) IN
         IF Len(cmd) >= 2 /\ cmd[2] = T_list THEN "Saved schedules: Regular Day"
         ELSE "Unknown schedule command."
    ELSE IF lower \in {T_about, T_about_word} THEN "JOTHI Bot - School Bell System"
    ELSE "Unknown command. Type /help for commands."

\* not ACCESS_TOKEN or "YOUR_WHATSAPP_TOKEN" in ACCESS_TOKEN
TokenMissing(token) == token = <<>> \/ has_sub(token, T_YOUR_WHATSAPP_TOKEN)

\* get_media_url of the server: (url, mime_type), or (None, None); the
\* request is made without a try, so no response raises
get_media_url_server(token, resp) ==
    IF TokenMissing(token) THEN [url |-> <<>>, mime |-> <<>>, raised |-> FALSE]
    ELSE IF resp.status = NoResponse THEN [url |-> <<>>, mime |-> <<>>, raised |-> TRUE]
    ELSE IF resp.status = 200 THEN [url |-> resp.url, mime |-> resp.mime, raised |-> FALSE]
    ELSE [url |-> <<>>, mime |-> <<>>, raised |-> FALSE]

\* download_media_file of the server: the path, or None; every exception of
\* the request and of '"ogg" in mime_type' is caught
download_media_file_server(token, status, media_id, mime_type) ==
    IF TokenMissing(token) THEN <<>>
    ELSE IF status = 200 /\ mime_type # None
    THEN LET ext == IF has_sub(mime_type, <<"o","g","g">>) THEN T_ogg
                    ELSE IF has_sub(mime_type, <<"m","p","e","g">>) THEN T_mp3
                    ELSE T_bin
         IN  <<"m","e","d","i","a","_">> \o media_id \o ext
    ELSE <<>>

\* the audio branch of process_whatsapp_message
audio_message(wa_number, msg, token, resp, status) ==
    LET media_id == msg.media
        m == get_media_url_server(token, resp)
        lookup == Call("get_media_url", wa_number, "", media_id)
    IN
    IF media_id = <<>>
    THEN [calls |-> <<send_whatsapp_text_server(wa_number, "No media id found in audio.")>>,
          raised |-> FALSE]
    ELSE IF m.raised THEN [calls |-> <<lookup>>, raised |-> TRUE]
    ELSE IF m.url # <<>>
    THEN [calls |-> <<lookup,
                      Call("download_media_file", wa_number, "",
                           download_media_file_server(token, status, media_id, m.mime)),
                      send_whatsapp_text_server(wa_number, "Voice received and saved.")>>,
          raised |-> FALSE]
    ELSE [calls |-> <<lookup, send_whatsapp_text_server(wa_number, "Failed to download audio.")>>,
          raised |-> FALSE]

\* process_whatsapp_message: the number it resolved, the role it looked up and
\* the calls it made, in order; raised when it ended in an exception, which
\* handle_webhook catches
process_whatsapp_message(msg, token, resp, status) ==
    LET sender == msg.from
        wa_number == IF startswith(sender, T_plus) THEN sender ELSE T_plus \o sender
        role == get_role_server(wa_number)
    IN
    IF sender = <<>>
    THEN [wa_number |-> <<>>, role |-> None, calls |-> <<>>, raised |-> FALSE]
    ELSE IF ~is_authorized(wa_number)
    THEN [wa_number |-> wa_number, role |-> role, calls |-> <<NotAuthorized(wa_number)>>,
          raised |-> FALSE]
    ELSE IF msg.type = "text"
    THEN LET text == strip(msg.body) IN
         [wa_number |-> wa_number, role |-> role,
          calls |-> <<Call("handle_command", wa_number, "", text),
                      send_whatsapp_text_server(wa_number, handle_command(text, wa_number))>>,
          raised |-> FALSE]
    ELSE IF msg.type = "audio"
    THEN [wa_number |-> wa_number, role |-> role] @@ audio_message(wa_number, msg, token, resp, status)
    ELSE [wa_number |-> wa_number, role |-> role,
          calls |-> <<send_whatsapp_text_server(wa_number, "Message type not supported yet.")>>,
          raised |-> FALSE]

\* the senders of the messages: the listed numbers with and without the plus
\* sign, numbers that are not listed, a listed number with a space in front,
\* and a message without a sender
ServerSenders ==
    {T_Principal, Tail(T_Principal), T_Staff, Tail(T_Staff),
     Alice, Tail(Alice), <<" ">> \o T_Principal, SubSeq(T_Principal, 1, 12), <<>>}

B_announce_Hi == <<"/","a","n","n","o","u","n","c","e"," ","H","i">>
B_about_upper == <<"/","A","B","O","U","T">>

ServerMsgs ==
    {TextMsg(f, b) : f \in ServerSenders,
                     b \in {B_help, T_help_word, B_announce_Hi, B_schedule_list, T_schedule,
                            B_about_upper, B_hello, <<>>}}
    \cup {AudioMsg(f, id) : f \in ServerSenders, id \in {<<>>, <<"m">>}}
    \cup {OtherMsg(f) : f \in ServerSenders}

\* POST /webhook with one message: handle_webhook runs process_whatsapp_message
\* to its end before it answers
handle_webhook ==
    /\ \E msg \in ServerMsgs, resp \in MetaResponses, status \in DownloadStatuses :
           served' = Some([msg |-> msg] @@ process_whatsapp_message(msg, ACCESS_TOKEN, resp, status))
    /\ UNCHANGED <<AUTH_USERS, SESSIONS, BELL_SCHEDULES, ACCESS_TOKEN, PHONE_NUMBER_ID,
                   openai_client, now, threads, workers, nmsgs, nsess, VERIFY_TOKEN, handshake>>

\* os.getenv("JOTHI_ACCESS_TOKEN", "YOUR_WHATSAPP_TOKEN"): the placeholder, an
\* empty value, or a real token
ServerTokens == {<<>>, T_YOUR_WHATSAPP_TOKEN, <<"k">>}

\* the server process after import: the engine of the integration module is
\* not part of it
InitServer ==
    /\ AUTH_USERS = EmptyDict
    /\ SESSIONS = EmptyDict
    /\ BELL_SCHEDULES = StubSchedules
    /\ ACCESS_TOKEN \in ServerTokens
    /\ PHONE_NUMBER_ID = <<"7">>
    /\ openai_client = None
    /\ now = 0
    /\ threads = EmptyDict
    /\ workers = {}
    /\ nmsgs = 0
    /\ nsess = 0
    /\ VERIFY_TOKEN = "JOTHI_VERIFY"
    /\ handshake = None
    /\ served = None

NextServer == handle_webhook
SpecServer == InitServer /\ [][NextServer]_vars

\* the calls of the last processed message that are not the rejection
OtherCalls ==
    {i \in 1..Len(served[1].calls) :
         served[1].calls[i] # NotAuthorized(served[1].wa_number)}

\* the number the server resolves the sender of msg to
ResolvedNumber(msg) ==
    IF msg.from = <<>> THEN <<>>
    ELSE IF Head(msg.from) = "+" THEN msg.from ELSE <<"+">> \o msg.from

(* C25: strict gating in the standalone server.  For a message of any type *)
(* and content whose sender is not a key of AUTHORIZED_USERS,              *)
(* process_whatsapp_message makes no call but the not-authorized           *)
(* rejection: it never calls handle_command, never asks for the media URL  *)
(* and never downloads; a message that names a sender gets exactly one     *)
(* rejection, a message without a sender gets nothing.                     *)
C25_StrictGating ==
    (served # None /\ ResolvedNumber(served[1].msg) \notin DOMAIN AUTHORIZED_USERS) =>
        LET r == served[1] IN
        /\ OtherCalls = {}
        /\ \A i \in 1..Len(r.calls) :
               r.calls[i].op \notin {"handle_command", "get_media_url", "download_media_file"}
        /\ ~r.raised
        /\ r.role = None
        /\ r.msg.from # <<>> => r.calls = <<NotAuthorized(ResolvedNumber(r.msg))>>
        /\ r.msg.from = <<>> => r.calls = <<>>

\* a voice note with a media id from a number that is not listed was
\* answered with the rejection alone, by a server that holds a real token
C25_Witness ==
    /\ served # None
    /\ ~TokenMissing(ACCESS_TOKEN)
    /\ served[1].msg = AudioMsg(Tail(Alice), <<"m">>)
    /\ served[1].calls = <<NotAuthorized(Alice)>>

---------------------------------------------------------------------------
(* Two identities at once *)

IsolationMsgs ==
    {TextMsg(f, b) : f \in {Alice, Bob}, b \in {B_announce_text, B_two}}

InitIsolation ==
    /\ InitWith({Alice, Bob}, {None})
    /\ AUTH_USERS = (Alice :> "admin") @@ (Bob :> "developer")
NextIsolation == Receive(IsolationMsgs, MaxRace) \/ Run \/ Clock({301})
SpecIsolation == InitIsolation /\ [][NextIsolation]_vars

\* the entry of identity b in store S: None when it has none
Entry(S, b) == IF b \in DOMAIN S THEN Some(S[b]) ELSE None

\* thread t takes this step: it is started by it or performs an effect in it
Acts(t) == t \notin DOMAIN threads \/ threads'[t] # threads[t]

(* C26: session isolation across identities.  In every step of a handler,  *)
(* the lookup with its eviction included, the session entry of every       *)
(* identity other than the handler's sender is what it was: its expected   *)
(* state, payload and creation time are not created, changed, cleared or   *)
(* expired by the step; and a step in which no handler acts leaves the     *)
(* whole store as it was.                                                  *)
C26_Step ==
    /\ \A t \in DOMAIN threads' :
           Acts(t) =>
               \A b \in (DOMAIN SESSIONS \cup DOMAIN SESSIONS' \cup {Alice, Bob}) :
                   b # threads'[t].sender => Entry(SESSIONS', b) = Entry(SESSIONS, b)
    /\ (\A t \in DOMAIN threads' : ~Acts(t)) => SESSIONS' = SESSIONS

C26_SessionIsolation == [][C26_Step]_vars

\* Alice's continuation has cleared her session while Bob's session, created
\* after hers, is still stored
C26_Witness ==
    /\ Bob \in DOMAIN SESSIONS /\ Alice \notin DOMAIN SESSIONS
    /\ \E t \in DOMAIN threads :
           /\ threads[t].sender = Alice /\ Continues(t, "announce_model") /\ Done(t)
           /\ threads[t].log[Len(threads[t].log)] = ClearSession
           /\ SESSIONS[Bob].ts >= threads[t].session[1].ts
           /\ SESSIONS[Bob].sid > threads[t].session[1].sid

---------------------------------------------------------------------------
(* Overwriting a session *)

\* set_session stores a session for sender s in this step
Stores(s) ==
    /\ s \in DOMAIN SESSIONS'
    /\ s \in DOMAIN SESSIONS => SESSIONS'[s].sid # SESSIONS[s].sid

\* sender s has a session that has not expired
Live(S, s, t) == s \in DOMAIN S /\ ~Expired(S[s], t)

(* C27: a live session is never overwritten.  In every step, those of      *)
(* handlers of one sender that run concurrently included, set_session      *)
(* stores an entry for a sender only when the sender has no live session   *)
(* at that moment; so the expected state and payload of a live session     *)
(* stay as stored until clear_session or the eviction removes the entry.   *)
C27_Step ==
    \A s \in DOMAIN SESSIONS' :
        /\ Stores(s) => ~Live(SESSIONS, s, now)
        /\ (Live(SESSIONS, s, now) /\ s \in DOMAIN SESSIONS') =>
               /\ SESSIONS'[s].expect = SESSIONS[s].expect
               /\ SESSIONS'[s].data = SESSIONS[s].data

C27_NeverOverwritten == [][C27_Step]_vars

=============================================================================
